---- MODULE Spec2Model ----
(***************************************************************************)
(* Workflow execution engine of the multi-agent dashboard backend:         *)
(* execution order (pipeline_executor.py), failure queue and pipeline run  *)
(* (pipeline_executor.py, routes/failures.py), agent connections and       *)
(* heartbeat (agent_manager.py, heartbeat.py, broadcast.py).               *)
(***************************************************************************)
EXTENDS Integers, Sequences, FiniteSets, TLC

(***************************************************************************)
(* Bounds                                                                  *)
(***************************************************************************)
MaxNodes == 3
MaxEdges == 2
MaxFailures == 2
MaxRetries == 1
MaxConns == 2
MaxCalls == 2
MaxTime == 40
MaxCasts == 2
MaxClients == 2
MaxLogCalls == 103
MaxText == 5

(***************************************************************************)
(* config.py                                                               *)
(***************************************************************************)
HEARTBEAT_INTERVAL == 10
STALE_THRESHOLD == 30
MAX_ACTIVITY_LOG == 100

None == "none"

(***************************************************************************)
(* Generic helpers                                                         *)
(***************************************************************************)
Range(s) == {s[i] : i \in DOMAIN s}

RECURSIVE SeqsUpTo(_, _)
SeqsUpTo(S, n) ==
    IF n = 0 THEN {<<>>}
    ELSE LET prev == SeqsUpTo(S, n - 1)
         IN  prev \cup {Append(s, x) : s \in {t \in prev : Len(t) = n - 1}, x \in S}

(***************************************************************************)
(* Workflow graphs: nodes {id, type}, edges {source, target}               *)
(***************************************************************************)
GraphIds == 1 .. MaxNodes
OrderNodeTypes == {"workflowStart", "promptBlock"}

NodeIdsOf(ns) == {ns[i].id : i \in DOMAIN ns}

\* edges whose two endpoints are nodes of the graph (pipeline_executor.py:812)
LiveEdges(ns, es) ==
    {<<es[i].source, es[i].target>> : i \in {j \in DOMAIN es :
        es[j].source \in NodeIdsOf(ns) /\ es[j].target \in NodeIdsOf(ns)}}

RECURSIVE TransClosure(_)
TransClosure(R) ==
    LET R2 == R \cup {<<p[1], q[2]>> : p, q \in R}
        R3 == R \cup {pq \in R2 : \E p, q \in R : p[2] = q[1] /\ pq = <<p[1], q[2]>>}
    IN  IF R3 = R THEN R ELSE TransClosure(R3)

Acyclic(ns, es) == \A p \in TransClosure(LiveEdges(ns, es)) : p[1] # p[2]

(***************************************************************************)
(* _get_execution_order                                                    *)
(***************************************************************************)
\* graph[n]: the targets of n's edges, in edge-list order (duplicates kept)
RECURSIVE AdjacencyOf(_, _, _)
AdjacencyOf(ns, es, n) ==
    IF es = <<>> THEN <<>>
    ELSE LET e == Head(es)
             rest == AdjacencyOf(ns, Tail(es), n)
         IN  IF e.source = n /\ e.source \in NodeIdsOf(ns) /\ e.target \in NodeIdsOf(ns)
             THEN <<e.target>> \o rest
             ELSE rest

InDegreeOf(ns, es) ==
    [n \in NodeIdsOf(ns) |->
        Cardinality({i \in DOMAIN es :
            es[i].target = n /\ es[i].source \in NodeIdsOf(ns)})]

\* start_nodes: a workflowStart node is inserted at the front whatever its
\* in-degree; any other node is appended when its in-degree is 0
RECURSIVE StartNodesFrom(_, _, _, _)
StartNodesFrom(ns, indeg, i, acc) ==
    IF i > Len(ns) THEN acc
    ELSE IF ns[i].type = "workflowStart"
         THEN StartNodesFrom(ns, indeg, i + 1, <<ns[i].id>> \o acc)
         ELSE IF indeg[ns[i].id] = 0
              THEN StartNodesFrom(ns, indeg, i + 1, Append(acc, ns[i].id))
              ELSE StartNodesFrom(ns, indeg, i + 1, acc)

\* only the workflowStart nodes start the search
StartNodesMarkedOnly(ns, indeg) ==
    StartNodesFrom(ns, [n \in DOMAIN indeg |-> 1], 1, <<>>)

StartNodes(ns, indeg) == StartNodesFrom(ns, indeg, 1, <<>>)

\* the inner for loop: decrement each neighbour, enqueue it when it hits 0
RECURSIVE VisitNeighbours(_, _, _)
VisitNeighbours(nbrs, indeg, queue) ==
    IF nbrs = <<>> THEN [indeg |-> indeg, queue |-> queue]
    ELSE LET n == Head(nbrs)
             d == indeg[n] - 1
         IN  VisitNeighbours(Tail(nbrs), [indeg EXCEPT ![n] = d],
                             IF d = 0 THEN Append(queue, n) ELSE queue)

RECURSIVE BfsOrder(_, _, _, _, _, _)
BfsOrder(ns, es, queue, visited, indeg, order) ==
    IF queue = <<>> THEN order
    ELSE LET n == Head(queue)
         IN  IF n \in visited
             THEN BfsOrder(ns, es, Tail(queue), visited, indeg, order)
             ELSE LET r == VisitNeighbours(AdjacencyOf(ns, es, n), indeg, Tail(queue))
                  IN  BfsOrder(ns, es, r.queue, visited \cup {n}, r.indeg,
                               Append(order, n))

GetExecutionOrder(ns, es) ==
    BfsOrder(ns, es, StartNodes(ns, InDegreeOf(ns, es)), {}, InDegreeOf(ns, es), <<>>)

PositionIn(s, x) == CHOOSE i \in DOMAIN s : s[i] = x

VARIABLES
    g_nodes,      \* the node list handed to _get_execution_order
    g_edges,      \* the edge list handed to _get_execution_order
    g_order,      \* the list it returned
    g_calls,      \* how many times it has been computed on this graph
    failures,     \* PipelineExecutor.failures: failure id (1..n) -> Failure
    queue,        \* PipelineExecutor._execution_queue
    active_workflow_id,   \* PipelineExecutor.active_workflow_id
    active_project_path,  \* PipelineExecutor.active_project_path
    pipelines,    \* PipelineExecutor.pipelines: failure id -> PipelineState
    ex_pc,        \* where the consumption loop (start / _execute_pipeline) stands
    ex_fid,       \* the failure id of the run in progress
    ex_i,         \* the index (1-based) of the node the run is executing
    ex_agent,     \* the agent chosen by the prompt step in progress
    ex_result,    \* the result returned by the node executor, before it is stored
    enq_count,    \* how many ids have been put on the queue (history)
    deq_last,     \* the ticket of the entry taken last from the queue (history)
    ex_events,    \* the messages _execute_pipeline handed to broadcast() in its latest call
    ws_open,      \* whether the dashboard socket handler (websocket_endpoint) is still serving
    ws_reply,     \* the prompt_result messages it sent to the dashboard client
    registry,     \* the registry file: agent id -> entry
    agents,       \* AgentManager.agents: agent id -> AgentState
    connections,  \* AgentManager.connections, in insertion order: [id, conn]
    now,          \* the clock (seconds)
    conns,        \* the AgentConnection objects created so far, by number
    rc_pc,        \* where the registry reconciler stands in connect_agent / disconnect_agent
    rc_conn,      \* the AgentConnection it is working on
    rc_result,    \* what connect_agent returned last
    hb_pc,        \* where _check_all_agents stands
    hb_todo,      \* the rest of its snapshot of connections.items()
    hb_cur,       \* the [id, conn] it is probing
    calls,        \* the send_prompt call of each caller
    futures,      \* the futures created by send_prompt, by number
    events,       \* the messages handed to broadcast() by the latest step that published
    has_agent_added, \* whether the broadcaster given to AgentManager has broadcast_agent_added
    known,        \* RegistryService._known_instances
    hc_pc,        \* the loop handle_change is in
    hc_current,   \* the registry as handle_change read it
    hc_todo,      \* the ids its current loop has not visited yet
    hc_log,       \* the calls the latest handle_change made, in order
    clients,      \* BroadcastService.clients
    sinks,        \* the dashboard channels ever accepted, open or broken
    casts,        \* the running calls of broadcast()
    activity_log, \* BroadcastService.activity_log
    log_count,    \* the number of log_activity calls made
    fn_in,        \* the arguments of the helper call under study
    fn_out,       \* its return value, once it returned
    ex_conn,      \* the AgentConnection the prompt step holds (0: the pool is modelled without channels)
    ex_frames,    \* the frames the prompt step wrote to that connection's channel
    inbox,        \* per connection, the prompts the agent received and has not answered yet
    answers,      \* per future, the prompt whose response the listener stored in it (0: none)
    run_files,    \* the files of the run directories: [fid, name, run], run being the run that wrote it last
    ex_listing    \* the file listing appended to the prompt built last

orderVars == <<g_nodes, g_edges, g_order, g_calls>>
pipeVars == <<failures, queue, active_workflow_id, active_project_path, pipelines,
              ex_pc, ex_fid, ex_i, ex_agent, ex_result, enq_count, deq_last, ex_events>>
dashVars == <<ws_open, ws_reply>>
poolVars == <<registry, agents, connections>>
connVars == <<now, conns, rc_pc, rc_conn, rc_result, hb_pc, hb_todo, hb_cur,
              calls, futures, events, has_agent_added>>
cycleVars == <<known, hc_pc, hc_current, hc_todo, hc_log>>
castVars == <<clients, sinks, casts, activity_log, log_count>>
fnVars == <<fn_in, fn_out>>
stepVars == <<ex_conn, ex_frames>>
wireVars == <<inbox, answers>>
diskVars == <<run_files, ex_listing>>
auxVars == <<cycleVars, castVars, fnVars, stepVars, wireVars, diskVars>>
vars == <<orderVars, dashVars, auxVars, pipeVars, poolVars, connVars, auxVars>>

(***************************************************************************)
(* Stored workflows, agents and the registry file                          *)
(***************************************************************************)
AgentIds == {"a1", "a2"}
\* iteration order of the registry file
RegistryOrder == <<"a1", "a2">>
ProjectPaths == {"projA", "projB"}

\* the workflow files load_workflow finds; any other id is not found
Workflows ==
    [linear |->
        [nodes |-> << [id |-> "s", type |-> "workflowStart", agentId |-> None, condition |-> <<>>],
                      [id |-> "p", type |-> "promptBlock", agentId |-> None, condition |-> <<>>],
                      [id |-> "o", type |-> "output", agentId |-> None, condition |-> <<>>] >>,
         edges |-> << [source |-> "s", target |-> "p"],
                      [source |-> "p", target |-> "o"] >>],
     checks |->
        [nodes |-> << [id |-> "c", type |-> "condition", agentId |-> None, condition |-> <<>>],
                      [id |-> "h", type |-> "httpRequest", agentId |-> None, condition |-> <<>>] >>,
         edges |-> << [source |-> "c", target |-> "h"] >>],
     empty |->
        [nodes |-> << >>, edges |-> << >>],
     branch |->
        [nodes |-> << [id |-> "c", type |-> "condition", agentId |-> None,
                       condition |-> <<"failure", "running">>],
                      [id |-> "x", type |-> "httpRequest", agentId |-> None, condition |-> <<>>],
                      [id |-> "y", type |-> "httpRequest", agentId |-> None, condition |-> <<>>] >>,
         edges |-> << [source |-> "c", target |-> "x"],
                      [source |-> "c", target |-> "y"] >>],
     named |->
        [nodes |-> << [id |-> "q", type |-> "promptBlock", agentId |-> "a2", condition |-> <<>>] >>,
         edges |-> << >>],
     twostep |->
        [nodes |-> << [id |-> "p", type |-> "promptBlock", agentId |-> None, condition |-> <<>>],
                      [id |-> "h", type |-> "httpRequest", agentId |-> None, condition |-> <<>>] >>,
         edges |-> << [source |-> "p", target |-> "h"] >>]]

WorkflowIds == DOMAIN Workflows \cup {"missing"}

\* load_workflow: found (by file name or name field) or not
WorkflowFound(wf) == wf \in DOMAIN Workflows

LoadWorkflow(wf) == Workflows[wf]

ExecutableTypes == {"promptBlock", "httpRequest", "condition"}

NodeById(wf, n) ==
    LET ns == Workflows[wf].nodes
    IN  ns[CHOOSE i \in DOMAIN ns : ns[i].id = n]

Callers == {"pipeline", "dashboard"}

IdleCall == [pc |-> "idle", conn |-> 0, fut |-> 0, result |-> None, sent |-> FALSE]

(***************************************************************************)
(* Records                                                                 *)
(***************************************************************************)
EmptyMap == <<>>

MapPut(f, k, v) == [x \in DOMAIN f \cup {k} |-> IF x = k THEN v ELSE f[x]]

NewFailure ==
    [status |-> "pending", workflow_id |-> None, current_node_id |-> None,
     retry_count |-> 0, node_results |-> EmptyMap, completed_at |-> FALSE]

NewTask ==
    [status |-> "pending", assigned_agent_id |-> None, error |-> None]

NewPipeline(wf, order) ==
    [workflow_id |-> wf, status |-> "running", execution_order |-> order,
     current_index |-> 0, node_outputs |-> EmptyMap, tasks |-> EmptyMap,
     project_path |-> None]

FailureIds == 1 .. MaxFailures

IsConnected(a) == a \in DOMAIN agents /\ agents[a].connected

(***************************************************************************)
(* Agent selection (AgentManager)                                          *)
(***************************************************************************)
FirstOf(sq) == IF sq = <<>> THEN None ELSE Head(sq)

\* the ids that have an entry in the connection table
ConnAgents == {connections[i].id : i \in DOMAIN connections}

\* get_connection: the connection object the table holds for a (0: none)
ConnOf(a) ==
    LET es == SelectSeq(connections, LAMBDA e : e.id = a)
    IN  IF es = <<>> THEN 0 ELSE Head(es).conn

\* get_connected_agent: the first connection, in insertion order, whose agent
\* is marked connected
GetConnectedAgent ==
    LET live == SelectSeq(connections, LAMBDA e : IsConnected(e.id))
    IN  IF live = <<>> THEN None ELSE Head(live).id

\* the project path of the registry entry is not compared
GetAgentAnyProject(pp) ==
    FirstOf(SelectSeq(RegistryOrder,
                      LAMBDA a : /\ a \in DOMAIN registry
                                 /\ a \in ConnAgents
                                 /\ IsConnected(a)))

\* get_agent_for_project: the first registry entry with that project path
\* that has a connection and is marked connected
GetAgentForProject(pp) ==
    FirstOf(SelectSeq(RegistryOrder,
                      LAMBDA a : /\ a \in DOMAIN registry
                                 /\ registry[a].projectPath = pp
                                 /\ a \in ConnAgents
                                 /\ IsConnected(a)))

\* _execute_pipeline, lines 293-301: the project path of a run
RunProjectPath ==
    IF active_project_path # None THEN active_project_path
    ELSE LET a == FirstOf(SelectSeq(RegistryOrder,
                     LAMBDA x : x \in DOMAIN registry /\ registry[x].projectPath # None))
         IN  IF a = None THEN None ELSE registry[a].projectPath

(***************************************************************************)
(* Failure routes (routes/failures.py) and queue_failure                   *)
(***************************************************************************)
\* queue_failure applied to the failure table F; returns the new table and
\* whether the id was put on the queue
QueueFailure(F, fid, wf) ==
    IF fid \notin DOMAIN F THEN [ok |-> FALSE, F |-> F]
    ELSE LET w == IF wf # None THEN wf ELSE active_workflow_id
         IN  IF w = None THEN [ok |-> FALSE, F |-> F]
             ELSE [ok |-> TRUE,
                   F |-> [F EXCEPT ![fid].workflow_id = w, ![fid].status = "pending"]]

\* _execution_queue.put: an entry is the failure id; its ticket (the number of
\* the put that added it) is history, kept to state the order of consumption
Enqueue(fid) ==
    /\ queue' = Append(queue, [fid |-> fid, ticket |-> enq_count + 1])
    /\ enq_count' = enq_count + 1

\* POST /api/failures
CreateFailureRoute(wf, auto) ==
    /\ Len(failures) < MaxFailures
    /\ LET fid == Len(failures) + 1
           F1 == Append(failures, NewFailure)
           w == IF wf # None THEN wf ELSE active_workflow_id
       IN  IF auto /\ w # None
           THEN LET r == QueueFailure(F1, fid, w)
                IN  /\ failures' = r.F
                    /\ IF r.ok THEN Enqueue(fid) ELSE UNCHANGED <<queue, enq_count>>
           ELSE /\ failures' = F1
                /\ UNCHANGED <<queue, enq_count>>
    /\ UNCHANGED <<active_workflow_id, active_project_path, pipelines,
                   ex_pc, ex_fid, ex_i, ex_agent, ex_result, deq_last, ex_events>>
    /\ UNCHANGED <<orderVars, dashVars, auxVars, poolVars, connVars>>

RetryableStatuses == {"failed", "escalated"}

\* the route rejects only an id it does not know, whatever the status
RetryRejectedUnknownOnly(fid) == fid \notin DOMAIN failures

\* the request is answered with an error and nothing is queued
RetryRejected(fid) ==
    \/ fid \notin DOMAIN failures
    \/ failures[fid].status \notin RetryableStatuses

\* POST /api/failures/{id}/retry
RetryFailureRoute(fid) ==
    /\ IF RetryRejected(fid)
       THEN UNCHANGED <<failures, queue, enq_count>>
       ELSE /\ failures[fid].retry_count < MaxRetries
            /\ LET F1 == [failures EXCEPT ![fid].status = "pending",
                                          ![fid].retry_count = @ + 1,
                                          ![fid].node_results = EmptyMap,
                                          ![fid].current_node_id = None]
                   w == IF failures[fid].workflow_id # None
                        THEN failures[fid].workflow_id ELSE active_workflow_id
               IN  IF w # None
                   THEN LET r == QueueFailure(F1, fid, w)
                        IN  /\ failures' = r.F
                            /\ IF r.ok THEN Enqueue(fid) ELSE UNCHANGED <<queue, enq_count>>
                   ELSE /\ failures' = F1
                        /\ UNCHANGED <<queue, enq_count>>
    /\ UNCHANGED <<active_workflow_id, active_project_path, pipelines,
                   ex_pc, ex_fid, ex_i, ex_agent, ex_result, deq_last, ex_events>>
    /\ UNCHANGED <<orderVars, dashVars, auxVars, poolVars, connVars>>

\* POST /api/failures/{id}/escalate
EscalateFailureRoute(fid) ==
    /\ IF fid \notin DOMAIN failures
       THEN UNCHANGED failures
       ELSE failures' = [failures EXCEPT ![fid].status = "escalated"]
    /\ UNCHANGED <<queue, enq_count, active_workflow_id, active_project_path, pipelines,
                   ex_pc, ex_fid, ex_i, ex_agent, ex_result, deq_last, ex_events>>
    /\ UNCHANGED <<orderVars, dashVars, auxVars, poolVars, connVars>>

\* POST /api/failures/workflow (set_active_workflow after the existence check)
SetActiveWorkflowRoute(wf, pp) ==
    /\ IF ~WorkflowFound(wf)
       THEN UNCHANGED <<active_workflow_id, active_project_path>>
       ELSE /\ active_workflow_id' = wf
            /\ active_project_path' = IF pp # None THEN pp ELSE active_project_path
    /\ UNCHANGED <<failures, queue, enq_count, pipelines,
                   ex_pc, ex_fid, ex_i, ex_agent, ex_result, deq_last, ex_events>>
    /\ UNCHANGED <<orderVars, dashVars, auxVars, poolVars, connVars>>

(***************************************************************************)
(* The consumption loop: start and _execute_pipeline                       *)
(***************************************************************************)
\* the last executable node of the order is taken first
NextExecutableLast(wf, order, i0) ==
    LET c == {j \in i0 .. Len(order) : NodeById(wf, order[j]).type \in ExecutableTypes}
    IN  IF c = {} THEN 0 ELSE CHOOSE j \in c : \A k \in c : j >= k

\* the first index >= i0 of the order whose node is of an executable type
\* (0 when there is none): the for loop passes over every other node
NextExecutable(wf, order, i0) ==
    LET c == {j \in i0 .. Len(order) : NodeById(wf, order[j]).type \in ExecutableTypes}
    IN  IF c = {} THEN 0 ELSE CHOOSE j \in c : \A k \in c : j <= k

SetTask(P, fid, n, st, agent, err) ==
    [P EXCEPT ![fid].tasks =
        MapPut(@, n, [status |-> st, assigned_agent_id |-> agent, error |-> err])]

CurrentNode == pipelines[ex_fid].execution_order[ex_i]

CurrentTask == pipelines[ex_fid].tasks[CurrentNode]

\* the messages of the broadcast methods (lines 910-936), with the status the
\* record has when it is serialised
FailureUpdate(fid, st) ==
    [type |-> "failure_update", failure_id |-> fid, node_id |-> None, status |-> st]

TaskUpdate(fid, n, st) ==
    [type |-> "task_update", failure_id |-> fid, node_id |-> n, status |-> st]

PipelineComplete(fid) ==
    [type |-> "pipeline_complete", failure_id |-> fid, node_id |-> None, status |-> None]

\* the for loop of _execute_pipeline from index i0 on, up to its next await:
\* either the next task is created (pending), or the order is exhausted and
\* the run completes (lines 424-432)
EnterLoop(fid, i0, F, P) ==
    LET wf == P[fid].workflow_id
        order == P[fid].execution_order
        j == NextExecutable(wf, order, i0)
    IN  IF j = 0
        THEN /\ failures' = [F EXCEPT ![fid].status = "completed",
                                      ![fid].completed_at = TRUE,
                                      ![fid].current_node_id = None]
             /\ pipelines' = [P EXCEPT ![fid].status = "completed"]
             /\ ex_events' = ex_events \o <<FailureUpdate(fid, "completed"),
                                              PipelineComplete(fid)>>
             /\ ex_pc' = "idle"
             /\ ex_fid' = 0
             /\ ex_i' = 0
        ELSE /\ failures' = [F EXCEPT ![fid].current_node_id = order[j]]
             /\ pipelines' = [P EXCEPT ![fid].current_index = j - 1,
                                       ![fid].tasks = MapPut(@, order[j], NewTask)]
             /\ ex_events' = Append(ex_events, TaskUpdate(fid, order[j], "pending"))
             /\ ex_pc' = "dispatch"
             /\ ex_fid' = fid
             /\ ex_i' = j

\* the newest entry is taken (a stack)
QueueGetNewest(q) == [item |-> q[Len(q)], rest |-> SubSeq(q, 1, Len(q) - 1)]

\* asyncio.Queue.get: the oldest entry is taken
QueueGet(q) == [item |-> Head(q), rest |-> Tail(q)]

\* start: take the next id; _execute_pipeline up to its first await
ExecDequeue ==
    /\ ex_pc = "idle"
    /\ queue # <<>>
    /\ LET fid == QueueGet(queue).item.fid
       IN  /\ queue' = QueueGet(queue).rest
           /\ deq_last' = QueueGet(queue).item.ticket
           /\ IF fid \notin DOMAIN failures \/ failures[fid].workflow_id = None
              THEN /\ ex_events' = <<>>
                   /\ UNCHANGED <<failures, ex_pc, ex_fid>>
              ELSE IF ~WorkflowFound(failures[fid].workflow_id)
              THEN /\ failures' = [failures EXCEPT ![fid].status = "failed"]
                   /\ ex_events' = <<FailureUpdate(fid, "failed")>>
                   /\ UNCHANGED <<ex_pc, ex_fid>>
              ELSE /\ failures' = [failures EXCEPT ![fid].status = "running"]
                   /\ ex_events' = <<FailureUpdate(fid, "running")>>
                   /\ ex_pc' = "started"
                   /\ ex_fid' = fid
    /\ UNCHANGED <<active_workflow_id, active_project_path, pipelines, ex_i, ex_agent,
                   ex_result, enq_count>>
    /\ UNCHANGED <<orderVars, dashVars, auxVars, poolVars, connVars>>

\* lines 276-364: order, PipelineState, run directory, then the first task.
\* save_ok = FALSE: writing the run directory raises, which ends
\* _execute_pipeline with the exception caught in start
ExecSetupRun(save_ok) ==
    /\ ex_pc = "started"
    /\ LET fid == ex_fid
           wf == failures[fid].workflow_id
           w == LoadWorkflow(wf)
           order == GetExecutionOrder(w.nodes, w.edges)
           P1 == MapPut(pipelines, fid, NewPipeline(wf, order))
       IN  IF ~save_ok
           THEN /\ pipelines' = P1
                /\ ex_pc' = "idle"
                /\ ex_fid' = 0
                /\ UNCHANGED <<failures, ex_i, ex_events>>
           ELSE EnterLoop(fid, 1, failures,
                          [P1 EXCEPT ![fid].project_path = RunProjectPath])
    /\ UNCHANGED <<queue, active_workflow_id, active_project_path, ex_agent,
                   ex_result, enq_count, deq_last>>
    /\ UNCHANGED <<orderVars, dashVars, poolVars, connVars>>

\* the step where the run directory is left out
ExecSetup(save_ok) == ExecSetupRun(save_ok) /\ UNCHANGED auxVars

\* lines 366-373 and the head of the node executor, up to its first await
ExecDispatch ==
    /\ ex_pc = "dispatch"
    /\ LET fid == ex_fid
           P == pipelines[fid]
           node == NodeById(P.workflow_id, CurrentNode)
       IN  IF node.type = "promptBlock"
           THEN LET pp == IF P.project_path # None THEN P.project_path
                          ELSE active_project_path
                    byProject == IF pp # None THEN GetAgentForProject(pp) ELSE None
                    found == IF byProject # None THEN byProject ELSE GetConnectedAgent
                    agent_id == IF node.agentId # None THEN node.agentId ELSE found
                IN  IF agent_id = None
                    THEN /\ pipelines' = SetTask(pipelines, fid, node.id, "failed", None,
                                                 "No agent available")
                         /\ ex_events' = Append(ex_events, TaskUpdate(fid, node.id, "failed"))
                         /\ ex_pc' = "abort"
                         /\ UNCHANGED ex_agent
                    ELSE IF agent_id \notin ConnAgents \/ ~IsConnected(agent_id)
                    THEN /\ pipelines' = SetTask(pipelines, fid, node.id, "failed", None,
                                                 "Agent not connected")
                         /\ ex_events' = Append(ex_events, TaskUpdate(fid, node.id, "failed"))
                         /\ ex_pc' = "abort"
                         /\ UNCHANGED ex_agent
                    ELSE /\ ex_agent' = agent_id
                         /\ ex_pc' = "prompt_reset"
                         /\ UNCHANGED <<pipelines, ex_events>>
           ELSE /\ pipelines' = SetTask(pipelines, fid, node.id, "running", None, None)
                /\ ex_events' = Append(ex_events, TaskUpdate(fid, node.id, "running"))
                /\ ex_pc' = IF node.type = "httpRequest" THEN "http_wait" ELSE "cond_run"
                /\ UNCHANGED ex_agent
    /\ ex_conn' = IF ex_pc' = "prompt_reset" THEN ConnOf(ex_agent') ELSE 0
    /\ ex_frames' = <<>>
    /\ UNCHANGED <<failures, queue, active_workflow_id, active_project_path, ex_fid, ex_i,
                   ex_result, enq_count, deq_last>>
    /\ UNCHANGED <<orderVars, dashVars, cycleVars, castVars, fnVars, wireVars, diskVars, poolVars, connVars>>

\* a frame written to the channel of the connection the step holds
Frame(a, type) == [agent |-> a, type |-> type]

\* send_command and send_prompt write their frame when the connection has a
\* channel, the agent is marked connected and the channel is open
Sendable ==
    ex_conn # 0 /\ conns[ex_conn].ws = "open" /\ IsConnected(ex_agent)

\* _start_new_agent_session: send_command("newAgentSession") writes the frame
\* or returns an error at once
ResetFramesNone == ex_frames

ResetFrames ==
    IF Sendable THEN Append(ex_frames, Frame(ex_agent, "newAgentSession")) ELSE ex_frames

\* _execute_prompt_block lines 478-532: the session reset (its result, an
\* answer, an error or a timeout, is dropped), the prompt text, then the task
\* is marked running
PromptReset ==
    /\ ex_pc = "prompt_reset"
    /\ ex_frames' = ResetFrames
    /\ pipelines' = SetTask(pipelines, ex_fid, CurrentNode, "running", ex_agent, None)
    /\ ex_events' = Append(ex_events, TaskUpdate(ex_fid, CurrentNode, "running"))
    /\ ex_pc' = "prompt_send"
    /\ UNCHANGED <<failures, queue, active_workflow_id, active_project_path, ex_fid, ex_i,
                   ex_agent, ex_result, enq_count, deq_last, ex_conn>>
    /\ UNCHANGED <<orderVars, dashVars, cycleVars, castVars, fnVars, wireVars, diskVars, poolVars, connVars>>

\* send_prompt returns an error without waiting: the agent is not marked
\* connected, or the write to a channel that is closed raised
SendFails ==
    \/ ~IsConnected(ex_agent)
    \/ ex_conn # 0 /\ conns[ex_conn].ws # "open"

\* line 535, send_prompt up to its wait for the answer
PromptSendRun ==
    /\ ex_pc = "prompt_send"
    /\ IF SendFails
       THEN /\ pipelines' = SetTask(pipelines, ex_fid, CurrentNode, "failed", ex_agent,
                                    IF IsConnected(ex_agent) THEN "error"
                                    ELSE "Not connected")
            /\ ex_events' = Append(ex_events, TaskUpdate(ex_fid, CurrentNode, "failed"))
            /\ ex_pc' = "abort"
            /\ UNCHANGED ex_frames
       ELSE /\ ex_pc' = "prompt_wait"
            /\ ex_frames' = IF ex_conn # 0
                            THEN Append(ex_frames, Frame(ex_agent, "copilotPrompt"))
                            ELSE ex_frames
            /\ UNCHANGED <<pipelines, ex_events>>
    /\ UNCHANGED <<failures, queue, active_workflow_id, active_project_path, ex_fid, ex_i,
                   ex_agent, ex_result, enq_count, deq_last, ex_conn>>
    /\ UNCHANGED <<orderVars, dashVars, cycleVars, castVars, fnVars, wireVars, poolVars, connVars>>

\* the step where the run directory is left out
PromptSend == PromptSendRun /\ UNCHANGED diskVars

PromptOutcomes == {"content", "error", "Timeout"}

\* lines 535-556: what send_prompt returned
PromptResult(outcome) ==
    /\ ex_pc = "prompt_wait"
    /\ IF outcome = "content"
       THEN /\ pipelines' = SetTask(pipelines, ex_fid, CurrentNode, "completed", ex_agent, None)
            /\ ex_result' = "response"
            /\ ex_events' = Append(ex_events, TaskUpdate(ex_fid, CurrentNode, "completed"))
            /\ ex_pc' = "store"
       ELSE /\ pipelines' = SetTask(pipelines, ex_fid, CurrentNode, "failed", ex_agent, outcome)
            /\ ex_events' = Append(ex_events, TaskUpdate(ex_fid, CurrentNode, "failed"))
            /\ ex_pc' = "abort"
            /\ UNCHANGED ex_result
    /\ UNCHANGED <<failures, queue, active_workflow_id, active_project_path, ex_fid, ex_i,
                   ex_agent, enq_count, deq_last>>
    /\ UNCHANGED <<orderVars, dashVars, auxVars, poolVars, connVars>>

\* _execute_http_request lines 580-614: the request returned (ok) or raised
HttpResult(ok) ==
    /\ ex_pc = "http_wait"
    /\ IF ok
       THEN /\ pipelines' = SetTask(pipelines, ex_fid, CurrentNode, "completed", None, None)
            /\ ex_result' = "http"
            /\ ex_events' = Append(ex_events, TaskUpdate(ex_fid, CurrentNode, "completed"))
            /\ ex_pc' = "store"
       ELSE /\ pipelines' = SetTask(pipelines, ex_fid, CurrentNode, "failed", None, "request error")
            /\ ex_events' = Append(ex_events, TaskUpdate(ex_fid, CurrentNode, "failed"))
            /\ ex_pc' = "abort"
            /\ UNCHANGED ex_result
    /\ UNCHANGED <<failures, queue, active_workflow_id, active_project_path, ex_fid, ex_i,
                   ex_agent, enq_count, deq_last>>
    /\ UNCHANGED <<orderVars, dashVars, auxVars, poolVars, connVars>>

\* what a condition reads of a node result: the status of a prompt result,
\* the text of any other
ResultStatus(r) == IF r = "response" THEN "success" ELSE r

\* _evaluate_condition: the empty condition is true; "left == right"
\* compares the context value named left (the live Failure record, an
\* earlier node's result) with right; anything else is true
EvaluateCondition(cond, fid) ==
    IF cond = <<>> THEN TRUE
    ELSE IF cond[1] = "failure" THEN failures[fid].status = cond[2]
    ELSE IF cond[1] \in DOMAIN pipelines[fid].node_outputs
    THEN ResultStatus(pipelines[fid].node_outputs[cond[1]]) = cond[2]
    ELSE TRUE

\* _execute_condition lines 630-640: the output is {result, branch}
CondRun ==
    /\ ex_pc = "cond_run"
    /\ pipelines' = SetTask(pipelines, ex_fid, CurrentNode, "completed", None, None)
    /\ ex_result' = IF EvaluateCondition(NodeById(pipelines[ex_fid].workflow_id,
                                                   CurrentNode).condition, ex_fid)
                    THEN "true" ELSE "false"
    /\ ex_events' = Append(ex_events, TaskUpdate(ex_fid, CurrentNode, "completed"))
    /\ ex_pc' = "store"
    /\ UNCHANGED <<failures, queue, active_workflow_id, active_project_path, ex_fid, ex_i,
                   ex_agent, enq_count, deq_last>>
    /\ UNCHANGED <<orderVars, dashVars, auxVars, poolVars, connVars>>

\* the loop follows the branch of a condition: after a result "false" the
\* next node of the order is passed over
ExecStoreBranching(save_ok) ==
    /\ ex_pc = "store"
    /\ LET fid == ex_fid
           n == CurrentNode
           P1 == [pipelines EXCEPT ![fid].node_outputs = MapPut(@, n, ex_result)]
           F1 == [failures EXCEPT ![fid].node_results = MapPut(@, n, ex_result)]
       IN  IF save_ok
           THEN EnterLoop(fid, IF ex_result = "false" THEN ex_i + 2 ELSE ex_i + 1, F1, P1)
           ELSE /\ failures' = F1
                /\ pipelines' = [P1 EXCEPT ![fid].tasks[n].status = "failed",
                                           ![fid].tasks[n].error = "write error"]
                /\ ex_pc' = "abort"
                /\ UNCHANGED <<ex_fid, ex_i, ex_events>>
    /\ ex_result' = None
    /\ ex_agent' = None
    /\ UNCHANGED <<queue, active_workflow_id, active_project_path,
                   enq_count, deq_last>>
    /\ UNCHANGED <<orderVars, dashVars, auxVars, poolVars, connVars>>

\* lines 377-410, then the loop goes on. save_ok = FALSE: writing the
\* artifact raises, and the except clause (413-415) marks the task failed
ExecStoreRun(save_ok) ==
    /\ ex_pc = "store"
    /\ LET fid == ex_fid
           n == CurrentNode
           P1 == [pipelines EXCEPT ![fid].node_outputs = MapPut(@, n, ex_result)]
           F1 == [failures EXCEPT ![fid].node_results = MapPut(@, n, ex_result)]
       IN  IF save_ok
           THEN EnterLoop(fid, ex_i + 1, F1, P1)
           ELSE /\ failures' = F1
                /\ pipelines' = [P1 EXCEPT ![fid].tasks[n].status = "failed",
                                           ![fid].tasks[n].error = "write error"]
                /\ ex_pc' = "abort"
                /\ UNCHANGED <<ex_fid, ex_i, ex_events>>
    /\ ex_result' = None
    /\ ex_agent' = None
    /\ UNCHANGED <<queue, active_workflow_id, active_project_path,
                   enq_count, deq_last>>
    /\ UNCHANGED <<orderVars, dashVars, poolVars, connVars>>

\* the step where the run directory is left out
ExecStore(save_ok) == ExecStoreRun(save_ok) /\ UNCHANGED auxVars

\* the except clause marks the task failed and the loop goes on with the next
\* node instead of returning
ExecAbortGoesOn ==
    /\ ex_pc = "abort"
    /\ EnterLoop(ex_fid, ex_i + 1, failures,
                 [pipelines EXCEPT ![ex_fid].tasks[CurrentNode].status = "failed"])
    /\ ex_agent' = None
    /\ ex_result' = None
    /\ UNCHANGED <<queue, active_workflow_id, active_project_path,
                   enq_count, deq_last>>
    /\ UNCHANGED <<orderVars, dashVars, auxVars, poolVars, connVars>>

\* the except clause, lines 412-422: the task and the Failure are marked
\* failed and the run returns
ExecAbort ==
    /\ ex_pc = "abort"
    /\ pipelines' = [pipelines EXCEPT ![ex_fid].tasks[CurrentNode].status = "failed"]
    /\ failures' = [failures EXCEPT ![ex_fid].status = "failed"]
    /\ ex_events' = ex_events \o <<TaskUpdate(ex_fid, CurrentNode, "failed"),
                                     FailureUpdate(ex_fid, "failed")>>
    /\ ex_pc' = "idle"
    /\ ex_fid' = 0
    /\ ex_i' = 0
    /\ ex_agent' = None
    /\ ex_result' = None
    /\ UNCHANGED <<queue, active_workflow_id, active_project_path,
                   enq_count, deq_last>>
    /\ UNCHANGED <<orderVars, dashVars, auxVars, poolVars, connVars>>

(***************************************************************************)
(* The agent pool as the pipeline sees it                                  *)
(***************************************************************************)
\* connect_agent with a successful connect(): the connection is in the table
\* and the agent is marked connected and healthy.  connect() succeeds only
\* on a broadcaster that has broadcast_agent_added (see ConnectHandshake).
PoolConnect(a) ==
    /\ has_agent_added
    /\ a \in DOMAIN registry
    /\ ~IsConnected(a)
    /\ connections' = IF a \in ConnAgents THEN connections
                      ELSE Append(connections, [id |-> a, conn |-> 0])
    /\ agents' = MapPut(agents, a, [connected |-> TRUE, health |-> "healthy",
                                    last_heartbeat |-> <<now>>])
    /\ UNCHANGED <<registry, orderVars, dashVars, auxVars, pipeVars, connVars>>

\* listen(): the channel closed
PoolClosed(a) ==
    /\ IsConnected(a)
    /\ agents' = [agents EXCEPT ![a].connected = FALSE, ![a].health = "disconnected"]
    /\ UNCHANGED <<registry, connections, orderVars, dashVars, auxVars, pipeVars, connVars>>

\* the registry file during the pipeline runs: one agent, serving projA
PipeRegistry ==
    [a \in {"a1"} |-> [port |-> TRUE, projectPath |-> "projA"]]

PoolInit ==
    /\ registry = PipeRegistry
    /\ agents = EmptyMap
    /\ connections = <<>>

PipeInit ==
    /\ failures = <<>>
    /\ queue = <<>>
    /\ active_workflow_id = None
    /\ active_project_path = None
    /\ pipelines = EmptyMap
    /\ ex_pc = "idle"
    /\ ex_fid = 0
    /\ ex_i = 0
    /\ ex_agent = None
    /\ ex_result = None
    /\ enq_count = 0
    /\ deq_last = 0
    /\ ex_events = <<>>

\* no dashboard request has been handled yet
DashIdle ==
    /\ ws_open = TRUE
    /\ ws_reply = <<>>

OrderIdle ==
    /\ g_nodes = <<>>
    /\ g_edges = <<>>
    /\ g_order = <<>>
    /\ g_calls = 0

\* the request bodies tried: a failure is created with no workflow id (the
\* active one is used), with a stored one or with one that is not stored;
\* the workflow activated is a stored one or one that is not stored
CreateWorkflowInputs == {None, "checks", "missing"}
ActivateWorkflowInputs == {"linear", "missing"}

ConnIdle ==
    /\ now = 0
    /\ conns = <<>>
    /\ rc_pc = "idle"
    /\ rc_conn = 0
    /\ rc_result = FALSE
    /\ hb_pc = "idle"
    /\ hb_todo = <<>>
    /\ hb_cur = None
    /\ calls = [k \in Callers |-> IdleCall]
    /\ futures = <<>>
    /\ events = <<>>

\* handle_change has not run yet
CycleIdle ==
    /\ known = {}
    /\ hc_pc = "idle"
    /\ hc_current = EmptyMap
    /\ hc_todo = {}
    /\ hc_log = <<>>

CastIds == 1 .. MaxCasts

\* a call of broadcast() that is not running
IdleCast ==
    [pc |-> "idle", idx |-> 0, cur |-> 0, sent |-> {}, disconnected |-> <<>>, start |-> {}]

\* BroadcastService.__init__, and no dashboard accepted yet
CastIdle ==
    /\ clients = <<>>
    /\ sinks = EmptyMap
    /\ casts = [b \in CastIds |-> IdleCast]
    /\ activity_log = <<>>
    /\ log_count = 0

FnIdle ==
    /\ fn_in = <<>>
    /\ fn_out = <<>>

\* no prompt step has run yet
StepIdle ==
    /\ ex_conn = 0
    /\ ex_frames = <<>>

\* no prompt is on its way to an agent
WireIdle ==
    /\ inbox = [c \in 1 .. MaxConns |-> <<>>]
    /\ answers = [f \in 1 .. MaxCalls |-> 0]

\* no run directory exists and no prompt was built
DiskIdle ==
    /\ run_files = {}
    /\ ex_listing = [fid |-> 0, run |-> 0, step |-> 0, files |-> {}]

AuxIdle == CycleIdle /\ CastIdle /\ FnIdle /\ StepIdle /\ WireIdle /\ DiskIdle

InitPipe ==
    OrderIdle /\ DashIdle /\ AuxIdle /\ PipeInit /\ PoolInit /\ ConnIdle /\ has_agent_added = TRUE

NextPipe ==
    \/ \E wf \in CreateWorkflowInputs, auto \in BOOLEAN : CreateFailureRoute(wf, auto)
    \/ \E fid \in FailureIds : RetryFailureRoute(fid)
    \/ \E fid \in FailureIds : EscalateFailureRoute(fid)
    \/ \E wf \in ActivateWorkflowInputs, pp \in {None} : SetActiveWorkflowRoute(wf, pp)
    \/ ExecDequeue
    \/ \E ok \in BOOLEAN : ExecSetup(ok)
    \/ ExecDispatch
    \/ PromptReset
    \/ PromptSend
    \/ \E o \in PromptOutcomes : PromptResult(o)
    \/ \E ok \in BOOLEAN : HttpResult(ok)
    \/ CondRun
    \/ \E ok \in BOOLEAN : ExecStore(ok)
    \/ ExecAbort
    \/ \E a \in AgentIds : PoolConnect(a)
    \/ \E a \in AgentIds : PoolClosed(a)

SpecPipe == InitPipe /\ [][NextPipe]_vars

(***************************************************************************)
(* Claims about the failure routes and the pipeline run (SpecPipe)         *)
(***************************************************************************)
TasksOf(fid) == pipelines[fid].tasks

PositionsWithTask(fid) ==
    {k \in DOMAIN pipelines[fid].execution_order :
        pipelines[fid].execution_order[k] \in DOMAIN TasksOf(fid)}

\* C2: when the execution of a node fails, its task ends failed, the Failure
\* becomes failed when the run returns, and no task exists for any node later
\* in the execution order; an aborted linear run holds exactly one task,
\* the failed prompt task
C2_RunAbortsOnNodeFailure ==
    /\ [](ex_pc = "abort" => CurrentTask.status = "failed")
    /\ [](\A fid \in DOMAIN pipelines :
            \A k \in PositionsWithTask(fid) :
                TasksOf(fid)[pipelines[fid].execution_order[k]].status = "failed"
                => /\ \A m \in PositionsWithTask(fid) : m <= k
                   /\ pipelines[fid].workflow_id = "linear"
                        => DOMAIN TasksOf(fid) = {"p"})
    /\ [][ex_pc = "abort" /\ ex_pc' # "abort"
            => /\ ex_pc' = "idle"
               /\ failures'[ex_fid].status = "failed"
               /\ pipelines'[ex_fid].tasks[CurrentNode].status = "failed"
               /\ DOMAIN pipelines'[ex_fid].tasks = DOMAIN pipelines[ex_fid].tasks]_vars

C2_Witness ==
    \E fid \in DOMAIN pipelines :
        /\ pipelines[fid].workflow_id = "linear"
        /\ "p" \in DOMAIN TasksOf(fid)
        /\ TasksOf(fid)["p"].status = "failed"
        /\ TasksOf(fid)["p"].error = "error"
        /\ failures[fid].status = "failed"
        /\ ex_pc = "idle"

InQueue(fid) == \E i \in DOMAIN queue : queue[i].fid = fid

\* C3: retry of a failed Failure leaves it pending with retry_count one
\* greater, node_results empty, current_node_id cleared, and puts its id on
\* the queue exactly once against its previous workflow id; retry of a
\* pending, running or completed Failure changes nothing
C3_RetryContract ==
    [][\A fid \in DOMAIN failures :
        /\ (RetryFailureRoute(fid) /\ failures[fid].status = "failed")
            => /\ failures'[fid].status = "pending"
               /\ failures'[fid].retry_count = failures[fid].retry_count + 1
               /\ failures'[fid].node_results = EmptyMap
               /\ failures'[fid].current_node_id = None
               /\ failures'[fid].workflow_id =
                    (IF failures[fid].workflow_id # None
                     THEN failures[fid].workflow_id ELSE active_workflow_id)
               /\ failures'[fid].workflow_id # None
               /\ Len(queue') = Len(queue) + 1
               /\ SubSeq(queue', 1, Len(queue)) = queue
               /\ queue'[Len(queue')].fid = fid
        /\ (RetryFailureRoute(fid)
                /\ failures[fid].status \in {"pending", "running", "completed"})
            => UNCHANGED <<failures, queue>>
        /\ failures'[fid].retry_count # failures[fid].retry_count
            => failures[fid].status \in {"failed", "escalated"}]_vars

C3_Witness ==
    \E fid \in DOMAIN failures :
        /\ failures[fid].retry_count = 1
        /\ failures[fid].status = "pending"
        /\ failures[fid].node_results = EmptyMap
        /\ fid \in DOMAIN pipelines
        /\ \E n \in DOMAIN TasksOf(fid) : TasksOf(fid)[n].status = "failed"
        /\ InQueue(fid)

\* C4: one run at a time, in the order of the puts: the queue holds the
\* tickets after the last one taken, in order; an id is taken only when no
\* run is in progress, and it is the next ticket; every task that is pending
\* or running is the current task of the one run in progress
C4_OneRunFifo ==
    /\ [](/\ Len(queue) = enq_count - deq_last
          /\ \A i \in DOMAIN queue : queue[i].ticket = deq_last + i)
    /\ [](\A fid \in DOMAIN pipelines : \A n \in DOMAIN TasksOf(fid) :
            TasksOf(fid)[n].status \in {"pending", "running"}
            => ex_pc # "idle" /\ fid = ex_fid /\ n = CurrentNode)
    /\ [][deq_last' # deq_last
            => /\ ex_pc = "idle"
               /\ deq_last' = deq_last + 1
               /\ queue # <<>>
               /\ queue[1].ticket = deq_last']_vars

C4_Witness ==
    /\ ex_pc \notin {"idle", "started"}
    /\ deq_last = 2
    /\ Len(queue) >= 1
    /\ queue[1].fid # ex_fid

\* C10: a Failure's status becomes escalated only by the escalate route, and
\* only from failed or pending, never from running or completed
C10_EscalateOnlyFromFailedOrPending ==
    [][\A fid \in DOMAIN failures :
        (failures'[fid].status = "escalated" /\ failures[fid].status # "escalated")
        => /\ EscalateFailureRoute(fid)
           /\ failures[fid].status \in {"failed", "pending"}]_vars

\* node ids are opaque to the algorithm (only compared for equality), so the
\* node list is taken as ids 1..k in list order, each with any type
GraphNodeLists ==
    UNION {{[i \in 1 .. k |-> [id |-> i, type |-> ty[i]]] : ty \in [1 .. k -> OrderNodeTypes]} :
           k \in 0 .. MaxNodes}

\* a source or target of 0 is an endpoint that is no node (a dangling edge)
GraphEdgeValues ==
    [source : GraphIds, target : GraphIds]
        \cup {[source |-> 0, target |-> 1], [source |-> 1, target |-> 0]}

GraphEdgeLists == SeqsUpTo(GraphEdgeValues, MaxEdges)

PoolIdle ==
    /\ registry = EmptyMap
    /\ agents = EmptyMap
    /\ connections = <<>>

InitOrder ==
    /\ DashIdle
    /\ AuxIdle
    /\ PipeInit
    /\ PoolIdle
    /\ ConnIdle
    /\ has_agent_added = FALSE
    /\ g_nodes \in GraphNodeLists
    /\ g_edges \in GraphEdgeLists
    /\ Acyclic(g_nodes, g_edges)
    /\ g_order = <<>>
    /\ g_calls = 0

ComputeOrderKeepsVisited ==
    /\ g_calls < 2
    /\ g_order' = SelectSeq(GetExecutionOrder(g_nodes, g_edges),
                            LAMBDA n : n \notin Range(g_order))
    /\ g_calls' = g_calls + 1
    /\ UNCHANGED <<g_nodes, g_edges, dashVars, auxVars, pipeVars, poolVars, connVars>>

ComputeOrder ==
    /\ g_calls < 2
    /\ g_order' = GetExecutionOrder(g_nodes, g_edges)
    /\ g_calls' = g_calls + 1
    /\ UNCHANGED <<g_nodes, g_edges, dashVars, auxVars, pipeVars, poolVars, connVars>>

NextOrder == ComputeOrder

SpecOrder == InitOrder /\ [][NextOrder]_vars

\* C1: for every edge (u,v) of an acyclic graph whose endpoints are nodes,
\* u appears before v in the computed execution order
C1_TopologicalOrder ==
    g_calls > 0 =>
        \A e \in LiveEdges(g_nodes, g_edges) :
            /\ e[1] \in Range(g_order)
            /\ e[2] \in Range(g_order)
            /\ PositionIn(g_order, e[1]) < PositionIn(g_order, e[2])

\* C17: for every acyclic graph the computed execution order holds every
\* node id exactly once, also when the edge list holds the same edge twice
C17_OrderIsPermutation ==
    g_calls > 0 =>
        /\ Len(g_order) = Len(g_nodes)
        /\ Range(g_order) = NodeIdsOf(g_nodes)

\* the order was computed on three nodes with a duplicated edge
C17_Witness ==
    /\ g_calls > 0
    /\ Len(g_nodes) = 3
    /\ Len(g_edges) = 2
    /\ g_edges[1] = g_edges[2]
    /\ g_edges[1].source \in NodeIdsOf(g_nodes)
    /\ g_edges[1].target \in NodeIdsOf(g_nodes)
    /\ Len(g_order) = 3

rcVars == <<rc_pc, rc_conn, rc_result>>
hbVars == <<hb_pc, hb_todo, hb_cur>>
callVars == <<calls, futures>>

MapDel(f, k) == [x \in DOMAIN f \ {k} |-> f[x]]

\* AgentConnection.__init__
NewConn(a) ==
    [id |-> a, ws |-> "none", listening |-> FALSE, pending |-> EmptyMap, task |-> "none"]

\* the AgentState written by a successful and by a failed connect()
ConnectedState(t) ==
    [connected |-> TRUE, health |-> "healthy", last_heartbeat |-> <<t>>]

DisconnectedState ==
    [connected |-> FALSE, health |-> "disconnected", last_heartbeat |-> <<>>]

\* connections[a] = conn keeps the place of an id the table already holds
TablePut(a, c) ==
    IF a \in ConnAgents
    THEN [i \in DOMAIN connections |->
            IF connections[i].id = a THEN [id |-> a, conn |-> c] ELSE connections[i]]
    ELSE Append(connections, [id |-> a, conn |-> c])

TableDel(a) == SelectSeq(connections, LAMBDA e : e.id # a)

Activity(kind, a) == [type |-> "activity", event_type |-> kind, id |-> a]

AgentDelta(a) == [type |-> "agent_delta", id |-> a]

AgentRemoved(a) == [type |-> "agent_removed", id |-> a]

\* what broadcast_agent_added hands to broadcast(), where the broadcaster has it
AgentAdded(a) == [type |-> "agent_added", id |-> a]

\* A receive or a ping on a channel that is closed fails at once, and the task
\* waiting on it is woken in the next loop iteration; a connect() needs network
\* round trips, so it completes after those tasks have run.
WakeupPending ==
    \/ \E c \in DOMAIN conns : /\ conns[c].task \in {"created", "running"}
                               /\ conns[c].ws \in {"lost", "closed"}
    \/ hb_pc = "probing" /\ conns[hb_cur.conn].ws # "open"

\* the registry file is rewritten by the agents' processes
RegistryAdd(a) ==
    /\ a \in DOMAIN PipeRegistry
    /\ a \notin DOMAIN registry
    /\ registry' = MapPut(registry, a, PipeRegistry[a])
    /\ UNCHANGED <<agents, connections, now, conns, rcVars, hbVars, callVars, events,
                   has_agent_added, orderVars, dashVars, auxVars, pipeVars>>

RegistryRemove(a) ==
    /\ a \in DOMAIN registry
    /\ registry' = MapDel(registry, a)
    /\ UNCHANGED <<agents, connections, now, conns, rcVars, hbVars, callVars, events,
                   has_agent_added, orderVars, dashVars, auxVars, pipeVars>>

\* connect_agent up to the first suspension of connect(); handle_change calls
\* it for a registry entry that is new or not connected
ConnectAgentBegin(a) ==
    /\ rc_pc = "idle"
    /\ a \in DOMAIN registry
    /\ ~IsConnected(a)
    /\ Len(conns) < MaxConns
    /\ IF ~registry[a].port
       THEN /\ rc_result' = FALSE
            /\ UNCHANGED <<connections, conns, rc_pc, rc_conn>>
       ELSE /\ conns' = Append(conns, NewConn(a))
            /\ connections' = TablePut(a, Len(conns) + 1)
            /\ rc_pc' = "connecting"
            /\ rc_conn' = Len(conns) + 1
            /\ UNCHANGED rc_result
    /\ UNCHANGED <<registry, agents, now, hbVars, callVars, events, has_agent_added,
                   orderVars, dashVars, auxVars, pipeVars>>

ConnectOutcomes == {"refused", "bad_handshake", "ok"}

\* connect(): the channel opened or not, and the handshake frame read or not.
\* With the handshake read the state is written and the activity logged; the
\* call of broadcast_agent_added on a broadcaster that has no such method
\* raises AttributeError, which the except clause turns into a failed connect.
ConnectHandshake(outcome) ==
    /\ rc_pc = "connecting"
    /\ ~WakeupPending
    /\ LET c == rc_conn
           a == conns[c].id
       IN  /\ conns' = [conns EXCEPT ![c].ws = IF outcome = "refused" THEN "none" ELSE "open"]
           /\ IF outcome = "ok" /\ has_agent_added
              THEN /\ agents' = MapPut(agents, a, ConnectedState(now))
                   /\ events' = <<Activity("agent_connected", a)>>
                   /\ rc_pc' = "announcing"
                   /\ UNCHANGED rc_result
              ELSE /\ agents' = MapPut(agents, a, DisconnectedState)
                   /\ events' = IF outcome = "ok"
                                THEN <<Activity("agent_connected", a)>> ELSE events
                   /\ rc_pc' = "idle"
                   /\ rc_result' = FALSE
    /\ UNCHANGED <<registry, connections, now, rc_conn, hbVars, callVars, has_agent_added,
                   orderVars, dashVars, auxVars, pipeVars>>

\* connect() after the notification went out, and connect_agent creating the
\* listen task
ConnectAnnounced ==
    /\ rc_pc = "announcing"
    /\ events' = <<AgentAdded(conns[rc_conn].id)>>
    /\ conns' = [conns EXCEPT ![rc_conn].task = "created"]
    /\ rc_result' = TRUE
    /\ rc_pc' = "idle"
    /\ UNCHANGED <<registry, agents, connections, now, rc_conn, hbVars, callVars,
                   has_agent_added, orderVars, dashVars, auxVars, pipeVars>>

\* listen(): the task starts running
ListenStart(c) ==
    /\ c \in DOMAIN conns
    /\ conns[c].task = "created"
    /\ conns' = IF conns[c].ws = "none"
                THEN [conns EXCEPT ![c].task = "ended"]
                ELSE [conns EXCEPT ![c].listening = TRUE, ![c].task = "running"]
    /\ UNCHANGED <<registry, agents, connections, now, rcVars, hbVars, callVars, events,
                   has_agent_added, orderVars, dashVars, auxVars, pipeVars>>

\* the frames an agent may send: a prompt result, text that is not JSON, and
\* JSON that is not an object (a frame of any other type changes nothing)
FrameKinds == {"copilotPromptResult", "malformed", "nonObject"}

\* listen(): one frame read.  json.loads and data.get are inside the inner
\* try, whose only handler is for asyncio.TimeoutError, and the outer handler
\* is for ConnectionClosed: any other exception ends the task.
ListenRead(c, kind) ==
    /\ c \in DOMAIN conns
    /\ conns[c].task = "running"
    /\ conns[c].ws = "open"
    /\ LET a == conns[c].id
           pend == conns[c].pending
       IN  IF kind = "copilotPromptResult"
           THEN /\ events' = <<Activity("prompt_response", a)>>
                /\ IF a \in DOMAIN pend
                   THEN /\ conns' = [conns EXCEPT ![c].pending = MapDel(pend, a)]
                        /\ futures' = IF futures[pend[a]] = "pending"
                                      THEN [futures EXCEPT ![pend[a]] = "resolved"]
                                      ELSE futures
                   ELSE UNCHANGED <<conns, futures>>
           ELSE /\ conns' = [conns EXCEPT ![c].task = "faulted"]
                /\ UNCHANGED <<events, futures>>
    /\ UNCHANGED <<registry, agents, connections, now, rcVars, hbVars, calls,
                   has_agent_added, orderVars, dashVars, pipeVars>>

\* a frame read where the agent's side of the channel is left out: the agent
\* may send any frame at any time
ListenFrame(c, kind) == ListenRead(c, kind) /\ UNCHANGED auxVars

\* listen(): recv raised ConnectionClosed.  The handler writes into
\* agents[instance_id], which raises KeyError when the entry is gone.
ListenClosed(c) ==
    /\ c \in DOMAIN conns
    /\ conns[c].task = "running"
    /\ conns[c].ws \in {"lost", "closed"}
    /\ LET a == conns[c].id
       IN  IF a \in DOMAIN agents
           THEN /\ agents' = [agents EXCEPT ![a].connected = FALSE,
                                            ![a].health = "disconnected"]
                /\ events' = <<Activity("agent_disconnected", a), AgentDelta(a)>>
                /\ conns' = [conns EXCEPT ![c].task = "ended"]
           ELSE /\ conns' = [conns EXCEPT ![c].task = "faulted"]
                /\ UNCHANGED <<agents, events>>
    /\ UNCHANGED <<registry, connections, now, rcVars, hbVars, callVars,
                   has_agent_added, orderVars, dashVars, auxVars, pipeVars>>

\* listen(): a read timed out and the loop found _listening cleared
ListenExit(c) ==
    /\ c \in DOMAIN conns
    /\ conns[c].task = "running"
    /\ ~conns[c].listening
    /\ conns' = [conns EXCEPT ![c].task = "ended"]
    /\ UNCHANGED <<registry, agents, connections, now, rcVars, hbVars, callVars, events,
                   has_agent_added, orderVars, dashVars, auxVars, pipeVars>>

\* the agent's process closes the channel or goes away
RemoteClose(c) ==
    /\ c \in DOMAIN conns
    /\ conns[c].ws = "open"
    /\ conns' = [conns EXCEPT ![c].ws = "lost"]
    /\ UNCHANGED <<registry, agents, connections, now, rcVars, hbVars, callVars, events,
                   has_agent_added, orderVars, dashVars, auxVars, pipeVars>>

\* disconnect_agent up to the suspension in disconnect(); handle_change calls
\* it for an id that left the registry
DisconnectAgentBegin(a) ==
    /\ rc_pc = "idle"
    /\ a \notin DOMAIN registry
    /\ a \in ConnAgents
    /\ LET c == ConnOf(a)
       IN  /\ conns' = [conns EXCEPT ![c].listening = FALSE,
                                     ![c].ws = IF conns[c].ws = "none" THEN "none" ELSE "closed"]
           /\ rc_conn' = c
    /\ rc_pc' = "closing"
    /\ UNCHANGED <<registry, agents, connections, now, rc_result, hbVars, callVars, events,
                   has_agent_added, orderVars, dashVars, auxVars, pipeVars>>

\* disconnect() after the close, the two deletions of disconnect_agent, and
\* the notification of handle_change
DisconnectAgentFinish ==
    /\ rc_pc = "closing"
    /\ LET a == conns[rc_conn].id
       IN  /\ agents' = MapDel(agents, a)
           /\ connections' = TableDel(a)
           /\ events' = <<AgentRemoved(a)>>
    /\ rc_pc' = "idle"
    /\ UNCHANGED <<registry, now, conns, rc_conn, rc_result, hbVars, callVars,
                   has_agent_added, orderVars, dashVars, auxVars, pipeVars>>

(***************************************************************************)
(* Heartbeat monitor (services/heartbeat.py, AgentConnection.heartbeat)    *)
(***************************************************************************)
Elapsed(A, a, t) == t - A[a].last_heartbeat[1]

\* a failed probe marks the agent stale whatever the time since the last beat
MarkStaleAlways(A, a, t) ==
    IF a \notin DOMAIN A \/ A[a].last_heartbeat = <<>> THEN A
    ELSE IF A[a].health # "stale" THEN [A EXCEPT ![a].health = "stale"] ELSE A

\* _mark_stale_if_needed applied to the agent table A at time t; agent_state
\* is the table's entry (an entry that was deleted makes the write raise
\* KeyError, which is swallowed)
MarkStaleIfNeeded(A, a, t) ==
    IF a \notin DOMAIN A \/ A[a].last_heartbeat = <<>> THEN A
    ELSE IF Elapsed(A, a, t) > STALE_THRESHOLD /\ A[a].health # "stale"
         THEN [A EXCEPT ![a].health = "stale"]
         ELSE A

\* a failed probe is taken for a closed connection
ProbeFailedDisconnects(A, a, t) ==
    IF a \notin DOMAIN A THEN A
    ELSE [A EXCEPT ![a].connected = FALSE, ![a].health = "disconnected"]

\* _check_all_agents, the branch of a probe that returned False
ProbeFailed(A, a, t) == MarkStaleIfNeeded(A, a, t)

\* heartbeat(), lines 112-114: the writes after the pong
ProbeSucceeded(A, a, t) ==
    [A EXCEPT ![a].last_heartbeat = <<t>>, ![a].health = "healthy"]

\* the sleep of start() is over: _check_all_agents takes its snapshot
HbBegin ==
    /\ hb_pc = "idle"
    /\ connections # <<>>
    /\ hb_todo' = connections
    /\ hb_pc' = "loop"
    /\ UNCHANGED <<registry, agents, connections, now, conns, rcVars, hb_cur, callVars,
                   events, has_agent_added, orderVars, dashVars, auxVars, pipeVars>>

\* _check_all_agents: the next entry of the snapshot, up to the suspension of
\* heartbeat(); a ping on a channel that is not open raises and the probe
\* has failed without suspending
HbNext ==
    /\ hb_pc = "loop"
    /\ IF hb_todo = <<>>
       THEN /\ hb_pc' = "idle"
            /\ UNCHANGED <<hb_todo, hb_cur, agents, events>>
       ELSE LET e == Head(hb_todo)
            IN  /\ hb_todo' = Tail(hb_todo)
                /\ IF ~IsConnected(e.id)
                   THEN UNCHANGED <<hb_pc, hb_cur, agents, events>>
                   ELSE IF conns[e.conn].ws = "open"
                        THEN /\ hb_pc' = "probing"
                             /\ hb_cur' = e
                             /\ UNCHANGED <<agents, events>>
                        ELSE /\ agents' = ProbeFailed(agents, e.id, now)
                             /\ events' = IF agents' # agents
                                          THEN <<AgentDelta(e.id)>> ELSE events
                             /\ UNCHANGED <<hb_pc, hb_cur>>
    /\ UNCHANGED <<registry, connections, now, conns, rcVars, callVars,
                   has_agent_added, orderVars, dashVars, auxVars, pipeVars>>

\* heartbeat() resumes: the pong arrived, or the wait timed out or the channel
\* closed; then the rest of the loop body of _check_all_agents.  After a pong
\* agent_state is the entry heartbeat() has just set healthy, so line 39 is
\* not reached.
HbProbeResult(pong) ==
    /\ hb_pc = "probing"
    /\ pong => conns[hb_cur.conn].ws = "open"
    /\ LET a == hb_cur.id
       IN  IF pong /\ a \in DOMAIN agents
           THEN /\ agents' = ProbeSucceeded(agents, a, now)
                /\ UNCHANGED events
           ELSE /\ agents' = ProbeFailed(agents, a, now)
                /\ events' = IF agents' # agents THEN <<AgentDelta(a)>> ELSE events
    /\ hb_pc' = "loop"
    /\ UNCHANGED <<registry, connections, now, conns, rcVars, hb_todo, hb_cur, callVars,
                   has_agent_added, orderVars, dashVars, auxVars, pipeVars>>

\* time passes
Tick ==
    /\ now + HEARTBEAT_INTERVAL <= MaxTime
    /\ now' = now + HEARTBEAT_INTERVAL
    /\ UNCHANGED <<registry, agents, connections, conns, rcVars, hbVars, callVars, events,
                   has_agent_added, orderVars, dashVars, auxVars, pipeVars>>

(***************************************************************************)
(* send_prompt (AgentConnection)                                           *)
(***************************************************************************)
\* the timeout handler leaves the slot in the map
TimedOutPendingKept(pend, a) == pend

\* line 200: _pending_responses.pop(self.instance_id, None)
TimedOutPending(pend, a) == MapDel(pend, a)

\* send_prompt up to its first suspension: the connectivity test, the slot
\* registered under the instance id, the frame sent (a send on a channel that
\* is not open raises, and the handler pops the slot)
SendPromptBegin(k, c) ==
    /\ calls[k].pc \in {"idle", "returned"}
    /\ c \in DOMAIN conns
    /\ LET a == conns[c].id
           f == Len(futures) + 1
       IN  IF conns[c].ws = "none" \/ ~IsConnected(a)
           THEN /\ calls' = [calls EXCEPT ![k] = [pc |-> "returned", conn |-> c, fut |-> 0,
                                                  result |-> "Not connected", sent |-> FALSE]]
                /\ UNCHANGED <<conns, futures, events>>
           ELSE /\ Len(futures) < MaxCalls
                /\ events' = <<Activity("prompt_sent", a)>>
                /\ futures' = Append(futures, "pending")
                /\ IF conns[c].ws = "open"
                   THEN /\ conns' = [conns EXCEPT ![c].pending = MapPut(@, a, f)]
                        /\ calls' = [calls EXCEPT ![k] = [pc |-> "waiting", conn |-> c, fut |-> f,
                                                          result |-> None, sent |-> TRUE]]
                   ELSE /\ conns' = [conns EXCEPT ![c].pending = MapDel(@, a)]
                        /\ calls' = [calls EXCEPT ![k] = [pc |-> "returned", conn |-> c, fut |-> f,
                                                          result |-> "error", sent |-> FALSE]]
    /\ UNCHANGED <<registry, agents, connections, now, rcVars, hbVars,
                   has_agent_added, orderVars, dashVars, pipeVars>>

\* the call where the agent's side of the channel is left out
SendPromptCall(k, c) == SendPromptBegin(k, c) /\ UNCHANGED auxVars

\* wait_for returns the result the listener set
SendPromptResolved(k) ==
    /\ calls[k].pc = "waiting"
    /\ futures[calls[k].fut] = "resolved"
    /\ calls' = [calls EXCEPT ![k].pc = "returned", ![k].result = "content"]
    /\ UNCHANGED <<registry, agents, connections, now, conns, rcVars, hbVars, futures,
                   events, has_agent_added, orderVars, dashVars, auxVars, pipeVars>>

\* PROMPT_TIMEOUT is over: wait_for cancels the future; the caller resumes in
\* a later loop iteration
SendPromptTimeout(k) ==
    /\ calls[k].pc = "waiting"
    /\ futures[calls[k].fut] = "pending"
    /\ futures' = [futures EXCEPT ![calls[k].fut] = "cancelled"]
    /\ calls' = [calls EXCEPT ![k].pc = "timed_out"]
    /\ UNCHANGED <<registry, agents, connections, now, conns, rcVars, hbVars,
                   events, has_agent_added, orderVars, dashVars, auxVars, pipeVars>>

\* the handler of asyncio.TimeoutError
SendPromptTimedOut(k) ==
    /\ calls[k].pc = "timed_out"
    /\ LET c == calls[k].conn
       IN  conns' = [conns EXCEPT ![c].pending = TimedOutPending(@, conns[c].id)]
    /\ calls' = [calls EXCEPT ![k].pc = "returned", ![k].result = "Timeout"]
    /\ UNCHANGED <<registry, agents, connections, now, rcVars, hbVars, futures,
                   events, has_agent_added, orderVars, dashVars, auxVars, pipeVars>>

InitAgent ==
    /\ OrderIdle
    /\ AuxIdle
    /\ DashIdle
    /\ PipeInit
    /\ PoolInit
    /\ ConnIdle
    /\ has_agent_added \in BOOLEAN

\* the pool: the registry file, the reconciler's connects and disconnects, the
\* listeners and the agents' processes
NextPool ==
    \/ \E a \in AgentIds : RegistryAdd(a)
    \/ \E a \in AgentIds : RegistryRemove(a)
    \/ \E a \in AgentIds : ConnectAgentBegin(a)
    \/ \E o \in ConnectOutcomes : ConnectHandshake(o)
    \/ ConnectAnnounced
    \/ \E c \in 1 .. MaxConns : ListenStart(c)
    \/ \E c \in 1 .. MaxConns, kind \in FrameKinds : ListenFrame(c, kind)
    \/ \E c \in 1 .. MaxConns : ListenClosed(c)
    \/ \E c \in 1 .. MaxConns : ListenExit(c)
    \/ \E c \in 1 .. MaxConns : RemoteClose(c)
    \/ \E a \in AgentIds : DisconnectAgentBegin(a)
    \/ DisconnectAgentFinish

\* the pool under the heartbeat monitor
NextAgent ==
    \/ NextPool
    \/ HbBegin
    \/ HbNext
    \/ \E pong \in BOOLEAN : HbProbeResult(pong)
    \/ Tick

\* the pool under callers of send_prompt
NextPrompt ==
    \/ NextPool
    \/ \E k \in Callers, c \in 1 .. MaxConns : SendPromptCall(k, c)
    \/ \E k \in Callers : SendPromptResolved(k)
    \/ \E k \in Callers : SendPromptTimeout(k)
    \/ \E k \in Callers : SendPromptTimedOut(k)

SpecAgent == InitAgent /\ [][NextAgent]_vars

SpecPrompt == InitAgent /\ [][NextPrompt]_vars

(***************************************************************************)
(* Claims about connections, the heartbeat monitor and send_prompt         *)
(***************************************************************************)
\* C5: when the channel opens and the handshake frame is read, the agent's
\* state becomes connected, healthy, with last_heartbeat set, and connect()
\* goes on to publish the agent-added notification, after which it has
\* returned True and the listen task exists
C5_ConnectSuccess ==
    [][/\ ConnectHandshake("ok")
            => /\ agents'[conns[rc_conn].id] = ConnectedState(now)
               /\ rc_pc' = "announcing"
       /\ (rc_pc = "announcing" /\ rc_pc' # "announcing")
            => /\ rc_result'
               /\ events' = <<AgentAdded(conns[rc_conn].id)>>
               /\ conns'[rc_conn].task = "created"]_vars

HbStep == HbBegin \/ HbNext \/ \E pong \in BOOLEAN : HbProbeResult(pong)

\* C6: for a connected agent, health goes from healthy to stale only in a
\* step of the monitor and only when more than STALE_THRESHOLD has passed
\* since last_heartbeat, and a failed probe then does mark it stale; a failed
\* probe within the threshold changes nothing; a successful probe on a stale
\* agent makes it healthy and sets last_heartbeat to the time of the probe;
\* connected stays as it was
C6_HeartbeatHealth ==
    [][\A a \in DOMAIN agents :
        /\ (a \in DOMAIN agents' /\ agents[a].health = "healthy"
                /\ agents'[a].health = "stale")
            => /\ HbStep
               /\ agents[a].last_heartbeat # <<>>
               /\ Elapsed(agents, a, now) > STALE_THRESHOLD
               /\ agents'[a].connected = agents[a].connected
        /\ (HbProbeResult(FALSE) /\ hb_cur.id = a /\ agents[a].connected
                /\ agents[a].health = "healthy")
            => IF Elapsed(agents, a, now) > STALE_THRESHOLD
               THEN agents' = [agents EXCEPT ![a].health = "stale"]
               ELSE agents' = agents
        /\ (HbProbeResult(TRUE) /\ hb_cur.id = a /\ agents[a].connected
                /\ agents[a].health = "stale")
            => agents' = [agents EXCEPT ![a].health = "healthy",
                                        ![a].last_heartbeat = <<now>>]]_vars

\* an agent that was marked stale (the delta is the last message published)
\* and that a later probe found alive
C6_Witness ==
    \E a \in DOMAIN agents :
        /\ agents[a] = ConnectedState(now)
        /\ now > STALE_THRESHOLD
        /\ events = <<AgentDelta(a)>>
        /\ hb_pc = "loop"

\* C7: no step of the heartbeat monitor changes an agent's connected flag,
\* removes an agent or sets health to disconnected; health becomes
\* disconnected only by the listener's closure handler, by a failed connect
\* or by disconnect (which then removes the agent)
C7_HeartbeatNeverDisconnects ==
    [][/\ HbStep
            => /\ DOMAIN agents' = DOMAIN agents
               /\ \A a \in DOMAIN agents :
                    /\ agents'[a].connected = agents[a].connected
                    /\ agents'[a].health = "disconnected"
                        => agents[a].health = "disconnected"
       /\ \A a \in DOMAIN agents' :
            (agents'[a].health = "disconnected"
                /\ (a \in DOMAIN agents => agents[a].health # "disconnected"))
            => \/ \E c \in 1 .. MaxConns : ListenClosed(c)
               \/ \E o \in ConnectOutcomes : ConnectHandshake(o)]_vars

\* a probe of a connected agent failed long after its last beat: the agent is
\* stale and still connected, its channel still open
C7_Witness ==
    \E a \in DOMAIN agents :
        /\ agents[a].connected
        /\ agents[a].health = "stale"
        /\ conns[ConnOf(a)].ws = "open"
        /\ conns[ConnOf(a)].task = "running"
        /\ hb_pc = "loop"

\* C9: a listener that is running stops running only when its channel is
\* closed or disconnect() has cleared _listening, and never with a fault
\* while its agent is marked connected
C9_ListenerEndsOnlyOnClose ==
    [][\A c \in DOMAIN conns :
        (conns[c].task = "running" /\ conns'[c].task # "running")
        => /\ conns[c].ws \in {"lost", "closed"} \/ ~conns[c].listening
           /\ conns'[c].task = "faulted" => ~IsConnected(conns[c].id)]_vars

SlotHeld(f) ==
    \E c \in DOMAIN conns : \E key \in DOMAIN conns[c].pending : conns[c].pending[key] = f

\* C8: send_prompt returns a result on every path (content, or the error Not
\* connected, Timeout or the text of the exception); called on a connection
\* that is not connected it returns Not connected, sends nothing and
\* registers nothing; once it has returned, the map holds the slot it
\* registered no more
C8_SendPromptClearsSlot ==
    /\ [](\A k \in Callers :
            calls[k].pc = "returned"
            => /\ calls[k].result \in {"content", "Not connected", "Timeout", "error"}
               /\ calls[k].result = "Not connected" => ~calls[k].sent /\ calls[k].fut = 0
               /\ calls[k].fut # 0 => ~SlotHeld(calls[k].fut))
    /\ [][\A k \in Callers, c \in DOMAIN conns :
            (SendPromptCall(k, c) /\ (conns[c].ws = "none" \/ ~IsConnected(conns[c].id)))
            => /\ calls'[k].pc = "returned"
               /\ calls'[k].result = "Not connected"
               /\ UNCHANGED <<conns, futures>>]_vars

\* two calls overlapped on one connection: one returned the content, the
\* other timed out
C8_Witness ==
    \E k1, k2 \in Callers :
        /\ calls[k1].pc = "returned" /\ calls[k1].result = "Timeout"
        /\ calls[k2].pc = "returned" /\ calls[k2].result = "content"
        /\ calls[k1].conn = calls[k2].conn
        /\ calls[k1].fut < calls[k2].fut

(***************************************************************************)
(* Runs of the workflows without prompt steps                              *)
(***************************************************************************)
\* the workflows the failures are created with: the one without nodes and
\* the one whose condition has two successors
RunWorkflowInputs == {"empty", "branch"}

InitRun == InitPipe

NextRun ==
    \/ \E wf \in RunWorkflowInputs : CreateFailureRoute(wf, TRUE)
    \/ \E fid \in FailureIds : RetryFailureRoute(fid)
    \/ \E fid \in FailureIds : EscalateFailureRoute(fid)
    \/ ExecDequeue
    \/ \E ok \in BOOLEAN : ExecSetup(ok)
    \/ ExecDispatch
    \/ \E ok \in BOOLEAN : HttpResult(ok)
    \/ CondRun
    \/ \E ok \in BOOLEAN : ExecStore(ok)
    \/ ExecAbort

SpecRun == InitRun /\ [][NextRun]_vars

(***************************************************************************)
(* Prompt steps and dashboard requests on a pool of two agents             *)
(***************************************************************************)
\* AgentConnection._pending_prompt of the agent's connection is set: the
\* prompt step of the run is waiting for that agent's result
PendingPrompt(a) == ex_pc = "prompt_wait" /\ ex_agent = a

\* _handle_send_prompt for the dashboard message {type: send_prompt,
\* instance_id: target}.  An unknown target is ignored.  For a known one the
\* handler calls conn.is_busy(), which AgentConnection does not define: the
\* AttributeError leaves websocket_endpoint (it handles WebSocketDisconnect
\* only), so nothing is sent to an agent, no prompt_result is sent and the
\* socket is served no longer.
HandleSendPrompt(target) ==
    /\ ws_open
    /\ ws_open' = (target \notin ConnAgents)
    /\ UNCHANGED <<ws_reply, orderVars, auxVars, pipeVars, poolVars, connVars>>

\* the registry files tried: the two agents serve the same project, or two
\* different ones
ChoiceRegistries ==
    { [a \in AgentIds |-> [port |-> TRUE, projectPath |-> "projA"]],
      [a \in AgentIds |-> [port |-> TRUE,
                           projectPath |-> IF a = "a1" THEN "projA" ELSE "projB"]] }

\* the failures are created with the active workflow (linear, whose prompt
\* names no agent) or with the workflow whose prompt names a2
ChoiceWorkflowInputs == {None, "named"}

InitChoice ==
    /\ OrderIdle /\ DashIdle /\ AuxIdle /\ PipeInit /\ ConnIdle
    /\ has_agent_added = TRUE
    /\ registry \in ChoiceRegistries
    /\ agents = EmptyMap
    /\ connections = <<>>

\* every write to the run directory succeeds
NextChoice ==
    \/ \E wf \in ChoiceWorkflowInputs : CreateFailureRoute(wf, TRUE)
    \/ \E pp \in {None, "projB"} : SetActiveWorkflowRoute("linear", pp)
    \/ ExecDequeue
    \/ ExecSetup(TRUE)
    \/ ExecDispatch
    \/ PromptReset
    \/ PromptSend
    \/ \E o \in PromptOutcomes : PromptResult(o)
    \/ ExecStore(TRUE)
    \/ ExecAbort
    \/ \E a \in AgentIds : PoolConnect(a)
    \/ \E a \in AgentIds : PoolClosed(a)
    \/ \E a \in AgentIds : HandleSendPrompt(a)

SpecChoice == InitChoice /\ [][NextChoice]_vars

(***************************************************************************)
(* Claims about one run of a pipeline                                      *)
(***************************************************************************)
\* the order of the task statuses
StatusForward(a, b) ==
    \/ a = b
    \/ a = "pending" /\ b \in {"running", "completed", "failed"}
    \/ a = "running" /\ b \in {"completed", "failed"}

\* C11: within one run the status of a TaskExecution only moves forward
\* (pending, running, then completed or failed), and a completed or failed
\* task never changes again, also when writing the node's artifact fails
\* after the node succeeded.  A step of ExecSetup starts a new run.
C11_TaskStatusForwardOnly ==
    [][ex_pc # "started" =>
         \A fid \in DOMAIN pipelines :
            /\ fid \in DOMAIN pipelines'
            /\ \A n \in DOMAIN pipelines[fid].tasks :
                  /\ n \in DOMAIN pipelines'[fid].tasks
                  /\ StatusForward(pipelines[fid].tasks[n].status,
                                   pipelines'[fid].tasks[n].status)]_vars

\* C12: in every state the keys of PipelineState.node_outputs are nodes of
\* execution_order, and while PipelineState.status is running current_index
\* is a valid index of execution_order (0 <= current_index < its length),
\* also when the execution order is empty
C12_PipelineStateValid ==
    \A fid \in DOMAIN pipelines :
       LET P == pipelines[fid]
       IN  /\ DOMAIN P.node_outputs \subseteq Range(P.execution_order)
           /\ P.status = "running" =>
                 /\ 0 <= P.current_index
                 /\ P.current_index < Len(P.execution_order)

\* the executable nodes of a stored workflow
ExecutableNodes(wf) ==
    {n \in NodeIdsOf(LoadWorkflow(wf).nodes) : NodeById(wf, n).type \in ExecutableTypes}

\* the step ends the run of failure fid
RunEnds(fid) == ex_fid = fid /\ ex_pc # "idle" /\ ex_pc' = "idle"

\* the last k messages of the run
LastEvents(k) ==
    IF Len(ex_events) < k THEN <<>>
    ELSE SubSeq(ex_events, Len(ex_events) - k + 1, Len(ex_events))

\* C13: a run in which every executable node succeeded (its result was
\* stored) ends with Failure.status completed, completed_at set,
\* current_node_id cleared and PipelineState.status completed, and its last
\* two broadcasts are failure_update then pipeline_complete; pipeline_complete
\* is never broadcast for a run in which a task failed
C13_RunCompletes ==
    /\ [][\A fid \in DOMAIN failures :
            (/\ RunEnds(fid)
             /\ fid \in DOMAIN pipelines'
             /\ ExecutableNodes(pipelines'[fid].workflow_id)
                    \subseteq DOMAIN pipelines'[fid].node_outputs)
            => /\ failures'[fid].status = "completed"
               /\ failures'[fid].completed_at
               /\ failures'[fid].current_node_id = None
               /\ pipelines'[fid].status = "completed"
               /\ LastEvents(2)' = <<FailureUpdate(fid, "completed"),
                                      PipelineComplete(fid)>>]_vars
    /\ [](\A i \in DOMAIN ex_events :
            ex_events[i].type = "pipeline_complete"
            => /\ \A j \in DOMAIN ex_events :
                     ~(ex_events[j].type = "task_update" /\ ex_events[j].status = "failed")
               /\ \A n \in DOMAIN pipelines[ex_events[i].failure_id].tasks :
                     pipelines[ex_events[i].failure_id].tasks[n].status = "completed")

\* the step takes from the queue a failure whose workflow cannot be loaded
DequeuesUnloadable(fid) ==
    /\ ex_pc = "idle" /\ queue # <<>> /\ queue' = Tail(queue)
    /\ Head(queue).fid = fid
    /\ fid \in DOMAIN failures
    /\ failures[fid].workflow_id # None
    /\ ~WorkflowFound(failures[fid].workflow_id)

\* what the run of an unloadable workflow does, apart from the status the
\* Failure had in the queue: the status becomes failed in the step that
\* takes it, the run is over at once (never running), failure_update is its
\* only broadcast, and no PipelineState or TaskExecution is created
UnloadableFails(fid) ==
    /\ failures'[fid].status = "failed"
    /\ ex_pc' = "idle"
    /\ ex_events' = <<FailureUpdate(fid, "failed")>>
    /\ pipelines' = pipelines

\* C14 as stated: when the workflow of a dequeued Failure cannot be loaded,
\* the status goes directly from pending to failed without being running,
\* failure_update is broadcast, no PipelineState and no TaskExecution is created
C14_UnloadableFromPending ==
    [][\A fid \in FailureIds :
          DequeuesUnloadable(fid)
          => failures[fid].status = "pending" /\ UnloadableFails(fid)]_vars

\* C15: when the agent a dashboard send_prompt request targets is busy and
\* another connected agent serves the same project path, the request goes to
\* the other agent: the prompt_result sent back names the other agent and
\* carries handed_off_from with the targeted one
C15_BusyTargetHandsOff ==
    [][\A t \in AgentIds, o \in AgentIds :
         (/\ HandleSendPrompt(t)
          /\ t # o
          /\ t \in ConnAgents /\ o \in ConnAgents
          /\ IsConnected(t) /\ IsConnected(o)
          /\ registry[t].projectPath = registry[o].projectPath
          /\ PendingPrompt(t))
         => ws_reply' = Append(ws_reply, [instance_id |-> o, handed_off_from |-> t])]_vars

\* the positions of the order of run fid that hold an executable node
ExecutablePositions(fid) ==
    {k \in DOMAIN pipelines[fid].execution_order :
        NodeById(pipelines[fid].workflow_id, pipelines[fid].execution_order[k]).type
            \in ExecutableTypes}

RunningTasks ==
    UNION {{<<fid, n>> : n \in {m \in DOMAIN pipelines[fid].tasks :
                                   pipelines[fid].tasks[m].status = "running"}} :
           fid \in DOMAIN pipelines}

\* C16: within a run the tasks are created in execution order: a node has a
\* task only when every executable node before it in the order has a
\* completed task, a new task is pending and lies after every task of the
\* run, and at most one task is running at any time
C16_SequentialTasks ==
    /\ [](\A fid \in DOMAIN pipelines :
            \A k \in PositionsWithTask(fid) :
               \A m \in ExecutablePositions(fid) :
                  m < k => /\ m \in PositionsWithTask(fid)
                           /\ TasksOf(fid)[pipelines[fid].execution_order[m]].status
                                 = "completed")
    /\ [](Cardinality(RunningTasks) <= 1)
    /\ [][\A fid \in DOMAIN pipelines :
            (fid \in DOMAIN pipelines' /\ ex_pc # "started")
            => \A n \in DOMAIN pipelines'[fid].tasks \ DOMAIN pipelines[fid].tasks :
                  /\ pipelines'[fid].tasks[n].status = "pending"
                  /\ \A k \in PositionsWithTask(fid) :
                        k < PositionIn(pipelines[fid].execution_order, n)]_vars

C16_Witness ==
    \E fid \in DOMAIN pipelines :
        /\ pipelines[fid].workflow_id = "branch"
        /\ DOMAIN TasksOf(fid) = {"c", "x", "y"}
        /\ TasksOf(fid)["y"].status = "running"

\* the successors of the condition nodes of a stored workflow
CondSuccessors(wf) ==
    {e.target : e \in {d \in Range(LoadWorkflow(wf).edges) :
                          NodeById(wf, d.source).type = "condition"}}

\* C18: whatever a condition evaluates to, the run goes on with the next
\* node of the unchanged execution order, and a run that completes has
\* executed every successor of its condition nodes (both branches)
C18_BothBranchesRun ==
    /\ [](\A fid \in DOMAIN pipelines :
            /\ pipelines[fid].execution_order
                  = GetExecutionOrder(LoadWorkflow(pipelines[fid].workflow_id).nodes,
                                      LoadWorkflow(pipelines[fid].workflow_id).edges)
            /\ pipelines[fid].status = "completed"
                  => \A n \in CondSuccessors(pipelines[fid].workflow_id)
                             \cap ExecutableNodes(pipelines[fid].workflow_id) :
                        /\ n \in DOMAIN pipelines[fid].node_outputs
                        /\ TasksOf(fid)[n].status = "completed")
    /\ [][(/\ ex_pc = "store"
            /\ NodeById(pipelines[ex_fid].workflow_id, CurrentNode).type = "condition"
            /\ ex_pc' \notin {"store", "abort"})
           => /\ pipelines'[ex_fid].node_outputs[CurrentNode] \in {"true", "false"}
              /\ \A k \in ExecutablePositions(ex_fid) :
                    k > ex_i => /\ ex_pc' = "dispatch"
                                /\ ex_i' > ex_i
                                /\ ex_i' <= k]_vars

\* a run of branch completed after its condition evaluated to false
C18_Witness ==
    \E fid \in DOMAIN pipelines :
        /\ pipelines[fid].workflow_id = "branch"
        /\ pipelines[fid].status = "completed"
        /\ pipelines[fid].node_outputs["c"] = "false"
        /\ DOMAIN pipelines[fid].node_outputs = {"c", "x", "y"}

(***************************************************************************)
(* Claims about the selection of agents                                    *)
(***************************************************************************)
\* C19: get_connected_agent returns an agent only if it is connected and its
\* health is healthy (never a stale one), and none when there is no such agent
C19_ConnectedAgentIsHealthy ==
    /\ GetConnectedAgent # None
          => /\ IsConnected(GetConnectedAgent)
             /\ agents[GetConnectedAgent].health = "healthy"
    /\ GetConnectedAgent = None
          => ~ \E a \in ConnAgents : IsConnected(a) /\ agents[a].health = "healthy"

\* the agents that have a connection and are marked connected
ConnectedSet == {a \in AgentIds : a \in ConnAgents /\ IsConnected(a)}

\* those of them the registry lists with project path pp
MatchingSet(pp) ==
    {a \in ConnectedSet : a \in DOMAIN registry /\ registry[a].projectPath = pp}

\* the member of S that comes first in the registry
FirstInRegistry(S) ==
    CHOOSE a \in S : \A b \in S : PositionIn(RegistryOrder, a) <= PositionIn(RegistryOrder, b)

\* C20: a prompt step takes the agent its node names; otherwise the first
\* connected agent whose registry project path is the run's project path;
\* otherwise any connected agent; when there is none the task fails with the
\* no-agent-available error, and the run then fails without having gone
\* through the steps that send a frame (session reset, prompt)
C20_PromptAgentChoice ==
    /\ [][(ex_pc = "dispatch" /\ ex_pc' # "dispatch"
            /\ NodeById(pipelines[ex_fid].workflow_id, CurrentNode).type = "promptBlock")
           => LET node == NodeById(pipelines[ex_fid].workflow_id, CurrentNode)
                  rp == pipelines[ex_fid].project_path
              IN  IF node.agentId # None
                  THEN \/ ex_pc' = "prompt_reset" /\ ex_agent' = node.agentId
                       \/ ex_pc' = "abort" /\ node.agentId \notin ConnectedSet
                  ELSE IF MatchingSet(rp) # {}
                  THEN ex_pc' = "prompt_reset" /\ ex_agent' = FirstInRegistry(MatchingSet(rp))
                  ELSE IF ConnectedSet # {}
                  THEN ex_pc' = "prompt_reset" /\ ex_agent' \in ConnectedSet
                  ELSE /\ ex_pc' = "abort"
                       /\ ex_agent' = None
                       /\ pipelines'[ex_fid].tasks[CurrentNode].status = "failed"
                       /\ pipelines'[ex_fid].tasks[CurrentNode].error = "No agent available"]_vars
    /\ [][(ex_pc = "abort" /\ ex_pc' # "abort")
           => ex_pc' = "idle" /\ failures'[ex_fid].status = "failed"]_vars

\* two agents are connected, the run's project path is that of the second
\* one in the registry, and the prompt step (no agent named) has taken it
C20_Witness ==
    /\ ex_pc = "prompt_reset"
    /\ pipelines[ex_fid].workflow_id = "linear"
    /\ pipelines[ex_fid].project_path = "projB"
    /\ ConnectedSet = {"a1", "a2"}
    /\ registry["a1"].projectPath = "projA"
    /\ registry["a2"].projectPath = "projB"
    /\ ex_agent = "a2"

(***************************************************************************)
(* The reconcile cycle (RegistryService.handle_change)                     *)
(***************************************************************************)
\* the registry file is rewritten by the agents' processes: an entry appears
\* or is replaced, with or without a port.  The fields handle_change compares
\* for its delta message (role, projectPath, capabilities, agentName) stay
\* as they are, so no delta is sent by it.
RegistryWrite(a, port) ==
    /\ registry' = MapPut(registry, a, [port |-> port, projectPath |-> "projA"])
    /\ registry' # registry
    /\ UNCHANGED <<agents, connections, connVars, orderVars, dashVars, auxVars, pipeVars>>

Called(op, a) == [op |-> op, id |-> a]

\* the three loops of handle_change run over sets computed from the snapshot
\* and _known_instances
NewIds == DOMAIN hc_current \ known

RemovedWithConnection == {a \in known \ DOMAIN hc_current : a \in ConnAgents}

RemovedIds == known \ DOMAIN hc_current

ExistingIds == DOMAIN hc_current \cap known

\* connect_agent up to the first suspension of connect()
ConnectAgent(a, entry) ==
    IF ~entry.port
    THEN /\ rc_result' = FALSE
         /\ UNCHANGED <<connections, conns, rc_pc, rc_conn>>
    ELSE /\ Len(conns) < MaxConns
         /\ conns' = Append(conns, NewConn(a))
         /\ connections' = TablePut(a, Len(conns) + 1)
         /\ rc_pc' = "connecting"
         /\ rc_conn' = Len(conns) + 1
         /\ UNCHANGED rc_result

\* handle_change reads the registry and enters the loop over the new ids
HandleChangeBegin ==
    /\ hc_pc = "idle"
    /\ rc_pc = "idle"
    /\ hc_current' = registry
    /\ hc_todo' = DOMAIN registry \ known
    /\ hc_pc' = "new"
    /\ hc_log' = <<>>
    /\ UNCHANGED <<known, castVars, fnVars, wireVars, diskVars, stepVars, poolVars, connVars, orderVars, dashVars, pipeVars>>

\* the loop over the new ids: connect_agent is called with the entry read
HandleNew(a) ==
    /\ hc_pc = "new"
    /\ rc_pc = "idle"
    /\ a \in hc_todo
    /\ ConnectAgent(a, hc_current[a])
    /\ hc_todo' = hc_todo \ {a}
    /\ hc_log' = Append(hc_log, Called("connect_agent", a))
    /\ UNCHANGED <<known, hc_pc, hc_current, castVars, fnVars, wireVars, diskVars, stepVars, registry, agents, now, hbVars,
                   callVars, events, has_agent_added, orderVars, dashVars, pipeVars>>

\* a loop is exhausted and the next one starts
HandleNextLoop ==
    /\ hc_pc \in {"new", "removed"}
    /\ rc_pc = "idle"
    /\ hc_todo = {}
    /\ hc_pc' = IF hc_pc = "new" THEN "removed" ELSE "update"
    /\ hc_todo' = IF hc_pc = "new" THEN RemovedIds ELSE ExistingIds
    /\ UNCHANGED <<known, hc_current, hc_log, castVars, fnVars, wireVars, diskVars, stepVars, poolVars, connVars,
                   orderVars, dashVars, pipeVars>>

\* the loop over the removed ids: disconnect_agent up to the suspension in
\* disconnect(); for an id the connection table does not hold it deletes the
\* agent's state, returns, and the notification is sent
HandleRemoved(a) ==
    /\ hc_pc = "removed"
    /\ rc_pc = "idle"
    /\ a \in hc_todo
    /\ hc_todo' = hc_todo \ {a}
    /\ IF a \in ConnAgents
       THEN /\ LET c == ConnOf(a)
               IN  /\ conns' = [conns EXCEPT
                            ![c].listening = FALSE,
                            ![c].ws = IF conns[c].ws = "none" THEN "none" ELSE "closed"]
                   /\ rc_conn' = c
            /\ rc_pc' = "closing"
            /\ hc_log' = Append(hc_log, Called("disconnect_agent", a))
            /\ UNCHANGED <<agents, events>>
       ELSE /\ agents' = MapDel(agents, a)
            /\ events' = <<AgentRemoved(a)>>
            /\ hc_log' = hc_log \o <<Called("disconnect_agent", a), Called("agent_removed", a)>>
            /\ UNCHANGED <<conns, rc_conn, rc_pc>>
    /\ UNCHANGED <<known, hc_pc, hc_current, castVars, fnVars, wireVars, diskVars, stepVars, registry, connections, now,
                   rc_result, hbVars, callVars, has_agent_added, orderVars, dashVars, pipeVars>>

\* disconnect() after the close, the two deletions of disconnect_agent, and
\* the notification
HandleRemovedDone ==
    /\ hc_pc = "removed"
    /\ rc_pc = "closing"
    /\ LET a == conns[rc_conn].id
       IN  /\ agents' = MapDel(agents, a)
           /\ connections' = TableDel(a)
           /\ events' = <<AgentRemoved(a)>>
           /\ hc_log' = Append(hc_log, Called("agent_removed", a))
    /\ rc_pc' = "idle"
    /\ UNCHANGED <<known, hc_pc, hc_current, hc_todo, castVars, fnVars, wireVars, diskVars, stepVars, registry, now, conns,
                   rc_conn, rc_result, hbVars, callVars, has_agent_added, orderVars, dashVars,
                   pipeVars>>

\* the loop over the ids in both sets: only with a connection in the table is
\* the entry refreshed and, for an agent not marked connected, connect_agent
\* called
HandleExisting(a) ==
    /\ hc_pc = "update"
    /\ rc_pc = "idle"
    /\ a \in hc_todo
    /\ hc_todo' = hc_todo \ {a}
    /\ IF ConnOf(a) # 0 /\ ~IsConnected(a)
       THEN /\ ConnectAgent(a, hc_current[a])
            /\ hc_log' = Append(hc_log, Called("connect_agent", a))
       ELSE UNCHANGED <<connections, conns, rcVars, hc_log>>
    /\ UNCHANGED <<known, hc_pc, hc_current, castVars, fnVars, wireVars, diskVars, stepVars, registry, agents, now, hbVars,
                   callVars, events, has_agent_added, orderVars, dashVars, pipeVars>>

\* the last statement of the try block
HandleChangeEnd ==
    /\ hc_pc = "update"
    /\ rc_pc = "idle"
    /\ hc_todo = {}
    /\ known' = DOMAIN hc_current
    /\ hc_pc' = "idle"
    /\ UNCHANGED <<hc_current, hc_todo, hc_log, castVars, fnVars, wireVars, diskVars, stepVars, poolVars, connVars,
                   orderVars, dashVars, pipeVars>>

InitReconcile == InitAgent

\* The file is read by HandleChangeBegin only: a rewrite during a cycle has the
\* effect of the same rewrite after it, and is taken then.
NextReconcile ==
    \/ \E a \in AgentIds, port \in BOOLEAN : hc_pc = "idle" /\ RegistryWrite(a, port)
    \/ \E a \in AgentIds : hc_pc = "idle" /\ RegistryRemove(a)
    \/ HandleChangeBegin
    \/ \E a \in AgentIds : HandleNew(a)
    \/ HandleNextLoop
    \/ \E a \in AgentIds : HandleRemoved(a)
    \/ HandleRemovedDone
    \/ \E a \in AgentIds : HandleExisting(a)
    \/ HandleChangeEnd
    \/ \E o \in ConnectOutcomes : ConnectHandshake(o)
    \/ ConnectAnnounced
    \/ \E c \in 1 .. MaxConns : ListenStart(c)
    \/ \E c \in 1 .. MaxConns : ListenClosed(c)
    \/ \E c \in 1 .. MaxConns : ListenExit(c)
    \/ \E c \in 1 .. MaxConns : RemoteClose(c)

SpecReconcile == InitReconcile /\ [][NextReconcile]_vars

(***************************************************************************)
(* Claims about the reconcile cycle                                        *)
(***************************************************************************)
CycleEnds == hc_pc = "update" /\ hc_pc' = "idle"

CalledBefore(x, y) ==
    \E i, j \in DOMAIN hc_log : i < j /\ hc_log[i] = x /\ hc_log[j] = y

\* C21: when a reconcile cycle completes, connect_agent has been called for
\* every id of the snapshot that was not known before; for every id known
\* before and absent from the snapshot disconnect_agent was called and then
\* the agent_removed notification sent, and the id is in neither the agent
\* table nor the connection table; and the known ids are the snapshot's ids.
C21_CycleReconciles ==
    [][CycleEnds =>
        /\ \A a \in DOMAIN hc_current \ known :
              \E i \in DOMAIN hc_log : hc_log[i] = Called("connect_agent", a)
        /\ \A a \in known \ DOMAIN hc_current :
              /\ CalledBefore(Called("disconnect_agent", a), Called("agent_removed", a))
              /\ a \notin DOMAIN agents'
              /\ a \notin {connections'[i].id : i \in DOMAIN connections'}
        /\ known' = DOMAIN hc_current]_vars

\* a cycle has completed in which one agent was connected and disconnected
\* ids were removed
C21_Witness ==
    /\ hc_pc = "idle"
    /\ \E a \in AgentIds : \E i \in DOMAIN hc_log : hc_log[i] = Called("agent_removed", a)
    /\ \E a \in AgentIds : \E i \in DOMAIN hc_log : hc_log[i] = Called("connect_agent", a)
    /\ \E c \in DOMAIN conns : conns[c].ws = "closed"
    /\ known = DOMAIN hc_current

\* the existing-ids loop visits a
VisitsExisting(a) == hc_pc = "update" /\ a \in hc_todo /\ a \notin hc_todo'

\* C22: in every reconcile cycle, for each id that is in the snapshot and in
\* the known set and whose agent is not connected, connect_agent is called in
\* that cycle (after a failed connect, after a closed connection, and after a
\* first registry entry without a port).
C22_ReconnectsDisconnected ==
    [][\A a \in AgentIds :
          VisitsExisting(a) /\ ~IsConnected(a)
             => hc_log' = Append(hc_log, Called("connect_agent", a))]_vars

\* connect() returned False for the connection rc_conn
ConnectFails == rc_pc = "connecting" /\ rc_pc' = "idle"

\* the listener of connection c handled the closure of its channel
ClosureHandled(c) ==
    /\ c \in DOMAIN conns
    /\ conns[c].task = "running"
    /\ conns[c].ws \in {"lost", "closed"}
    /\ conns'[c].task \in {"ended", "faulted"}

\* C23: the connection table holds an AgentConnection for an id only while
\* that agent is connected: after a failed connect attempt, and after the
\* listener detected the closure, the table has no entry for the id.
C23_TableOnlyWhileConnected ==
    /\ [][ConnectFails =>
            conns[rc_conn].id \notin {connections'[i].id : i \in DOMAIN connections'}]_vars
    /\ [][\A c \in 1 .. MaxConns :
            ClosureHandled(c) =>
               conns[c].id \notin {connections'[i].id : i \in DOMAIN connections'}]_vars

(***************************************************************************)
(* Dashboard subscribers and the activity log (services/broadcast.py)      *)
(***************************************************************************)
ClientIds == 1 .. MaxClients

\* the websocket endpoint accepted a dashboard: add_client
AddClient(c) ==
    /\ c \notin DOMAIN sinks
    /\ clients' = Append(clients, c)
    /\ sinks' = MapPut(sinks, c, "open")
    /\ UNCHANGED <<casts, activity_log, log_count, cycleVars, fnVars, wireVars, diskVars, stepVars, poolVars, connVars,
                   orderVars, dashVars, pipeVars>>

\* the dashboard went away: every later write to its channel raises
SinkBreaks(c) ==
    /\ c \in DOMAIN sinks
    /\ sinks[c] = "open"
    /\ sinks' = [sinks EXCEPT ![c] = "broken"]
    /\ UNCHANGED <<clients, casts, activity_log, log_count, cycleVars, fnVars, wireVars, diskVars, stepVars, poolVars,
                   connVars, orderVars, dashVars, pipeVars>>

\* remove_client: list.remove of a websocket the list holds
RemoveClient(cl, c) == SelectSeq(cl, LAMBDA x : x # c)

\* the endpoint's receive raised WebSocketDisconnect and it calls remove_client
ClientDisconnect(c) ==
    /\ c \in DOMAIN sinks
    /\ sinks[c] = "broken"
    /\ c \in Range(clients)
    /\ clients' = RemoveClient(clients, c)
    /\ UNCHANGED <<sinks, casts, activity_log, log_count, cycleVars, fnVars, wireVars, diskVars, stepVars, poolVars,
                   connVars, orderVars, dashVars, pipeVars>>

\* broadcast() up to its first write: it returns at once with no subscriber
\* (start, the sinks subscribed when the call began, is history)
CastStarted ==
    IF clients = <<>>
    THEN [pc |-> "returned", idx |-> 0, cur |-> 0, sent |-> {}, disconnected |-> <<>>,
          start |-> {}]
    ELSE [pc |-> "sending", idx |-> 1, cur |-> clients[1], sent |-> {}, disconnected |-> <<>>,
          start |-> Range(clients)]

\* a caller awaits broadcast(message)
Broadcast(b) ==
    /\ casts[b].pc \in {"idle", "returned"}
    /\ casts' = [casts EXCEPT ![b] = CastStarted]
    /\ UNCHANGED <<clients, sinks, activity_log, log_count, cycleVars, fnVars, wireVars, diskVars, stepVars, poolVars,
                   connVars, orderVars, dashVars, pipeVars>>

\* the task log_activity created for broadcast() starts running
BroadcastTask(b) ==
    /\ casts[b].pc = "created"
    /\ casts' = [casts EXCEPT ![b] = CastStarted]
    /\ UNCHANGED <<clients, sinks, activity_log, log_count, cycleVars, fnVars, wireVars, diskVars, stepVars, poolVars,
                   connVars, orderVars, dashVars, pipeVars>>

\* the second loop of broadcast(): remove_client for each sink that raised
RemoveDisconnectedFirst(cl, dis) ==
    IF dis = <<>> THEN cl ELSE RemoveClient(cl, Head(dis))

RemoveDisconnected(cl, dis) == SelectSeq(cl, LAMBDA x : x \notin Range(dis))

\* broadcast() resumes after a write: the sink that raised is noted, and the
\* list iterator moves on in the list as it is now; past its end the sinks
\* noted are removed and broadcast() returns
BroadcastSent(b) ==
    /\ casts[b].pc = "sending"
    /\ LET k == casts[b]
           ok == sinks[k.cur] = "open"
           sent == IF ok THEN k.sent \cup {k.cur} ELSE k.sent
           dis == IF ok THEN k.disconnected ELSE Append(k.disconnected, k.cur)
       IN  IF k.idx < Len(clients)
           THEN /\ casts' = [casts EXCEPT ![b] = [pc |-> "sending", idx |-> k.idx + 1,
                                                  cur |-> clients[k.idx + 1],
                                                  sent |-> sent, disconnected |-> dis,
                                                  start |-> k.start]]
                /\ UNCHANGED clients
           ELSE /\ casts' = [casts EXCEPT ![b] = [pc |-> "returned", idx |-> k.idx,
                                                  cur |-> k.cur,
                                                  sent |-> sent, disconnected |-> dis,
                                                  start |-> k.start]]
                /\ clients' = RemoveDisconnected(clients, dis)
    /\ UNCHANGED <<sinks, activity_log, log_count, cycleVars, fnVars, wireVars, diskVars, stepVars, poolVars, connVars,
                   orderVars, dashVars, pipeVars>>

\* log_activity: insert(0, event), and pop() once the list is over the cap
LoggedUncapped(log, event) == <<event>> \o log

Logged(log, event) ==
    LET l == <<event>> \o log
    IN  IF Len(l) > MAX_ACTIVITY_LOG THEN SubSeq(l, 1, Len(l) - 1) ELSE l

\* log_activity: the event (its timestamp stands for it) is logged and a task
\* is created for its broadcast
LogActivity(b) ==
    /\ log_count < MaxLogCalls
    /\ casts[b].pc \in {"idle", "returned"}
    /\ activity_log' = Logged(activity_log, log_count + 1)
    /\ log_count' = log_count + 1
    /\ casts' = [casts EXCEPT ![b] = [IdleCast EXCEPT !.pc = "created"]]
    /\ UNCHANGED <<clients, sinks, cycleVars, fnVars, wireVars, diskVars, stepVars, poolVars, connVars, orderVars,
                   dashVars, pipeVars>>

InitCast == InitPipe

NextCast ==
    \/ \E c \in ClientIds : AddClient(c)
    \/ \E c \in ClientIds : SinkBreaks(c)
    \/ \E c \in ClientIds : ClientDisconnect(c)
    \/ \E b \in CastIds : Broadcast(b)
    \/ \E b \in CastIds : BroadcastTask(b)
    \/ \E b \in CastIds : BroadcastSent(b)
    \/ \E b \in CastIds : LogActivity(b)

SpecCast == InitCast /\ [][NextCast]_vars

(***************************************************************************)
(* Claims about the activity log and the subscribers                       *)
(***************************************************************************)
LogLength == IF log_count < MAX_ACTIVITY_LOG THEN log_count ELSE MAX_ACTIVITY_LOG

\* C24: after any sequence of log_activity calls the log holds at most
\* MAX_ACTIVITY_LOG events, newest first, and they are exactly the most
\* recent ones: a call past the cap evicts the single oldest event.
C24_LogKeepsMostRecent ==
    /\ Len(activity_log) <= MAX_ACTIVITY_LOG
    /\ activity_log = [i \in 1 .. LogLength |-> log_count + 1 - i]

\* more events were logged than the log holds
C24_Witness ==
    /\ log_count > MAX_ACTIVITY_LOG + 1
    /\ Len(activity_log) = MAX_ACTIVITY_LOG
    /\ activity_log[MAX_ACTIVITY_LOG] = log_count + 1 - MAX_ACTIVITY_LOG

Returns(b) == casts[b].pc = "sending" /\ casts'[b].pc = "returned"

\* C25: when broadcast(message) returns, every sink whose write raised is out
\* of the subscriber list, and no sink whose write succeeded was removed by it.
C25_RemovesExactlyFailedSinks ==
    [][\A b \in CastIds :
          Returns(b) =>
             /\ \A c \in Range(casts'[b].disconnected) : c \notin Range(clients')
             /\ \A c \in casts'[b].sent : c \in Range(clients) => c \in Range(clients')]_vars

\* a broadcast has returned after one write raised and another succeeded
C25_Witness ==
    \E b \in CastIds :
       /\ casts[b].pc = "returned"
       /\ casts[b].disconnected # <<>>
       /\ casts[b].sent # {}
       /\ casts[b].sent \subseteq Range(clients)

(***************************************************************************)
(* Prompt steps on connections with channels                               *)
(***************************************************************************)
InitStep == InitPipe

\* runs of the workflow linear (one prompt step) while the reconciler
\* connects the agent, its channel closes and it is connected again; every
\* write to the run directory succeeds
NextStep ==
    \/ CreateFailureRoute("linear", TRUE)
    \/ ExecDequeue
    \/ ExecSetup(TRUE)
    \/ ExecDispatch
    \/ PromptReset
    \/ PromptSend
    \/ \E o \in PromptOutcomes : PromptResult(o)
    \/ ExecStore(TRUE)
    \/ ExecAbort
    \/ \E a \in AgentIds : ConnectAgentBegin(a)
    \/ \E o \in ConnectOutcomes : ConnectHandshake(o)
    \/ ConnectAnnounced
    \/ \E c \in 1 .. MaxConns : ListenStart(c)
    \/ \E c \in 1 .. MaxConns : ListenClosed(c)
    \/ \E c \in 1 .. MaxConns : RemoteClose(c)

SpecStep == InitStep /\ [][NextStep]_vars

\* the prompt step sent its reset and went on
ResetDone == ex_pc = "prompt_reset" /\ ex_pc' = "prompt_send"

PyStr(s) == [kind |-> "str", s |-> s, n |-> 0, fields |-> <<>>]

PyInt(n) == [kind |-> "int", s |-> "", n |-> n, fields |-> <<>>]

PyDict(f) == [kind |-> "dict", s |-> "", n |-> 0, fields |-> f]

InnerDict == PyDict([k |-> PyStr("v")])

OutDict == PyDict([out |-> PyStr("o")])

\* json.dumps and str of the dicts that get serialised
JsonDumps(v) ==
    CASE v = InnerDict -> "{\"k\": \"v\"}"
      [] v = OutDict -> "{\"out\": \"o\"}"

\* str(): a string is itself, an integer its decimal digits, a dict its repr
Str(v) ==
    CASE v.kind = "str" -> v.s
      [] v.kind = "int" -> ToString(v.n)
      [] v = InnerDict -> "{'k': 'v'}"
      [] v = OutDict -> "{'out': 'o'}"

\* A text is a list of tokens: the two brace pairs, the dot, names (\w+) and a
\* piece of text that holds no name character and no brace.
Words == {"step1", "out"}

TextTokens == {"{{", "}}", ".", "Result: "} \cup Words

\* two names side by side would read as one longer name
WellTokenized(t) ==
    \A i \in 1 .. Len(t) - 1 : ~(t[i] \in Words /\ t[i + 1] \in Words)

Texts == {t \in SeqsUpTo(TextTokens, MaxText) : WellTokenized(t)}

\* the contexts tried; a key is a name, or a dotted name as a pair
OneKey(k, v) == [x \in {k} |-> v]

SubstContexts ==
    { <<>>,
      OneKey(<<"step1">>, PyDict([response |-> PyInt(42)])),
      OneKey(<<"step1">>, PyDict([response |-> InnerDict, data |-> PyStr("raw"),
                                  out |-> PyStr("o")])),
      OneKey(<<"step1">>, PyDict([data |-> PyStr("raw")])) @@ OneKey(<<"input">>, PyStr("in")),
      OneKey(<<"step1">>, PyDict([data |-> InnerDict])),
      OneKey(<<"step1">>, OutDict),
      OneKey(<<"step1">>, PyStr("plain")) @@ OneKey(<<"input">>, PyInt(7)),
      OneKey(<<"input">>, PyStr("in")),
      OneKey(<<"step1", "out">>, PyStr("direct")) @@ OneKey(<<"step1">>, OutDict) }

\* the regular expression \{\{(\w+(?:\.\w+)?)\}\} at position i
LooseMatch(t, i) ==
    i + 2 <= Len(t) /\ t[i] = "{{" /\ t[i + 1] # "{{" /\ t[i + 2] = "}}"

SimpleMatch(t, i) ==
    i + 2 <= Len(t) /\ t[i] = "{{" /\ t[i + 1] \in Words /\ t[i + 2] = "}}"

DottedMatch(t, i) ==
    /\ i + 4 <= Len(t)
    /\ t[i] = "{{" /\ t[i + 1] \in Words /\ t[i + 2] = "."
    /\ t[i + 3] \in Words /\ t[i + 4] = "}}"

\* replace_var: the text that takes the place of the match
ReplaceVarDataFirst(name, context, original) ==
    IF name \in DOMAIN context /\ context[name].kind = "dict"
       /\ "data" \in DOMAIN context[name].fields
    THEN <<Str(context[name].fields["data"])>>
    ELSE original

ReplaceVar(name, context, original) ==
    IF name \in DOMAIN context
    THEN LET val == context[name]
         IN  IF val.kind = "dict"
             THEN IF "response" \in DOMAIN val.fields
                  THEN <<Str(val.fields["response"])>>
                  ELSE IF "data" \in DOMAIN val.fields
                  THEN IF val.fields["data"].kind = "dict"
                       THEN <<JsonDumps(val.fields["data"])>>
                       ELSE <<Str(val.fields["data"])>>
                  ELSE <<JsonDumps(val)>>
             ELSE <<Str(val)>>
    ELSE IF /\ Len(name) = 2
            /\ <<name[1]>> \in DOMAIN context
            /\ context[<<name[1]>>].kind = "dict"
            /\ name[2] \in DOMAIN context[<<name[1]>>].fields
    THEN <<Str(context[<<name[1]>>].fields[name[2]])>>
    ELSE IF <<"input">> \in DOMAIN context
    THEN <<Str(context[<<"input">>])>>
    ELSE original

\* re.sub: the matches are replaced from left to right
RECURSIVE SubFrom(_, _, _)
SubFrom(t, context, i) ==
    IF i > Len(t) THEN <<>>
    ELSE IF SimpleMatch(t, i)
    THEN ReplaceVar(<<t[i + 1]>>, context, SubSeq(t, i, i + 2))
            \o SubFrom(t, context, i + 3)
    ELSE IF DottedMatch(t, i)
    THEN ReplaceVar(<<t[i + 1], t[i + 3]>>, context, SubSeq(t, i, i + 4))
            \o SubFrom(t, context, i + 5)
    ELSE <<t[i]>> \o SubFrom(t, context, i + 1)

SubstituteVariables(t, context) == IF t = <<>> THEN t ELSE SubFrom(t, context, 1)

InitSubstitute ==
    /\ OrderIdle /\ DashIdle /\ PipeInit /\ PoolInit /\ ConnIdle /\ has_agent_added = TRUE
    /\ CycleIdle /\ CastIdle /\ StepIdle /\ WireIdle /\ DiskIdle
    /\ fn_in \in [text : Texts, context : SubstContexts]
    /\ fn_out = <<>>

CallSubstitute ==
    /\ fn_out = <<>>
    /\ fn_out' = <<SubstituteVariables(fn_in.text, fn_in.context)>>
    /\ UNCHANGED <<fn_in, cycleVars, castVars, stepVars, wireVars, diskVars, orderVars, dashVars, pipeVars,
                   poolVars, connVars>>

NextSubstitute == CallSubstitute

SpecSubstitute == InitSubstitute /\ [][NextSubstitute]_vars

(***************************************************************************)
(* Claims about variable substitution                                      *)
(***************************************************************************)
\* the name of the placeholder that starts at position i, or <<>>
NameAt(t, i) ==
    IF i + 2 <= Len(t) /\ SubSeq(t, i, i + 2) \in {<<"{{", w, "}}">> : w \in Words}
    THEN <<t[i + 1]>>
    ELSE IF i + 4 <= Len(t)
            /\ SubSeq(t, i, i + 4) \in {<<"{{", w, ".", x, "}}">> : w, x \in Words}
    THEN <<t[i + 1], t[i + 3]>>
    ELSE <<>>

PlaceholderLen(name) == IF Len(name) = 1 THEN 3 ELSE 5

\* position i lies inside a placeholder that starts before it
Covered(t, i) ==
    \E j \in 1 .. i - 1 : NameAt(t, j) # <<>> /\ i < j + PlaceholderLen(NameAt(t, j))

IsStructured(v) == v.kind = "dict"

Serialized(v) == IF v = InnerDict THEN "{\"k\": \"v\"}" ELSE "{\"out\": \"o\"}"

\* the four rules of the claim, the first that applies
Resolved(name, context, placeholder) ==
    CASE name \in DOMAIN context /\ IsStructured(context[name]) ->
            LET f == context[name].fields
            IN  CASE "response" \in DOMAIN f -> <<Str(f["response"])>>
                  [] "response" \notin DOMAIN f /\ "data" \in DOMAIN f ->
                        <<IF IsStructured(f["data"]) THEN Serialized(f["data"])
                          ELSE Str(f["data"])>>
                  [] OTHER -> <<Serialized(context[name])>>
      [] name \in DOMAIN context /\ ~IsStructured(context[name]) -> <<Str(context[name])>>
      [] /\ name \notin DOMAIN context
         /\ Len(name) = 2
         /\ <<name[1]>> \in DOMAIN context
         /\ IsStructured(context[<<name[1]>>])
         /\ name[2] \in DOMAIN context[<<name[1]>>].fields ->
            <<Str(context[<<name[1]>>].fields[name[2]])>>
      [] OTHER -> IF <<"input">> \in DOMAIN context
                  THEN <<Str(context[<<"input">>])>>
                  ELSE placeholder

RECURSIVE ResolvedFrom(_, _, _)
ResolvedFrom(t, context, i) ==
    IF i > Len(t) THEN <<>>
    ELSE (IF NameAt(t, i) # <<>>
          THEN Resolved(NameAt(t, i), context,
                        SubSeq(t, i, i + PlaceholderLen(NameAt(t, i)) - 1))
          ELSE IF Covered(t, i) THEN <<>> ELSE <<t[i]>>)
         \o ResolvedFrom(t, context, i + 1)

C27_NoPlaceholderUnchanged ==
    (fn_out # <<>> /\ \A i \in DOMAIN fn_in.text : NameAt(fn_in.text, i) = <<>>)
        => fn_out[1] = fn_in.text

\* a text with braces around something that is not a name, substituted under
\* a context that has an input value
C27_Witness ==
    /\ fn_in.text = <<"{{", "Result: ", "}}", "step1">>
    /\ <<"input">> \in DOMAIN fn_in.context
    /\ fn_out = <<fn_in.text>>

(***************************************************************************)
(* Condition evaluation (PipelineExecutor._evaluate_condition)             *)
(***************************************************************************)
\* A condition is a list of tokens: blanks, quotes, the operators and words
\* in their spelling.  str.lower() of the words used:
Lower(t) ==
    CASE t \in {"Step1", "STEP1"} -> "step1"
      [] t \in {"TRUE", "True"} -> "true"
      [] t = "FALSE" -> "false"
      [] t \in {"Success", "SUCCESS"} -> "success"
      [] OTHER -> t

LowerAll(c) == [i \in DOMAIN c |-> Lower(c[i])]

\* str.strip(chars): the tokens of chars are dropped at both ends
RECURSIVE StripTokens(_, _)
StripTokens(c, chars) ==
    IF c = <<>> THEN c
    ELSE IF Head(c) \in chars THEN StripTokens(Tail(c), chars)
    ELSE IF c[Len(c)] \in chars THEN StripTokens(SubSeq(c, 1, Len(c) - 1), chars)
    ELSE c

FirstIndex(c, t) == CHOOSE i \in DOMAIN c : c[i] = t /\ \A j \in 1 .. i - 1 : c[j] # t

\* _evaluate_condition on the tokens of the condition; a context key is a
\* one-word name
EvaluateConditionText(condition, context) ==
    IF condition = <<>> THEN TRUE
    ELSE LET c == LowerAll(StripTokens(condition, {" "}))
         IN  IF c = <<"true">> THEN TRUE
             ELSE IF c = <<"false">> THEN FALSE
             ELSE IF "==" \in Range(c)
             THEN LET k == FirstIndex(c, "==")
                      left == StripTokens(SubSeq(c, 1, k - 1), {" "})
                      right == StripTokens(StripTokens(SubSeq(c, k + 1, Len(c)), {" "}),
                                           {"'", "\""})
                  IN  IF left \in DOMAIN context
                      THEN LET val == context[left]
                           IN  IF val.kind = "dict" /\ "status" \in DOMAIN val.fields
                               THEN <<Lower(Str(val.fields["status"]))>> = LowerAll(right)
                               ELSE <<Lower(Str(val))>> = LowerAll(right)
                      ELSE TRUE
             ELSE TRUE

\* the conditions tried: comparisons with and without blanks and quotes, the
\* literals in several spellings, and forms that are neither
Pads == {<<>>, <<" ">>}

Quotes == {<<>>, <<"'">>}

KeyWords == {"step1", "Step1", "STEP1", "out"}

ValueWords == {"success", "Success", "failed"}

Conditions ==
    {p1 \o <<k>> \o p2 \o <<"==">> \o p2 \o q \o <<v>> \o q \o p3 :
        p1 \in Pads, p2 \in Pads, p3 \in Pads, q \in Quotes, k \in KeyWords, v \in ValueWords}
    \cup {p1 \o <<w>> \o p2 : p1 \in Pads, p2 \in Pads,
                              w \in {"true", "TRUE", "True", "false", "FALSE"}}
    \cup {<<>>, <<" ">>}
    \cup {<<k>> : k \in KeyWords}
    \cup {<<k, " ", "!=", " ", v>> : k \in KeyWords, v \in ValueWords}

CondContexts ==
    { <<>>,
      OneKey(<<"step1">>, PyStr("Success")),
      OneKey(<<"step1">>, PyDict([status |-> PyStr("SUCCESS")])),
      OneKey(<<"step1">>, OutDict),
      OneKey(<<"Step1">>, PyStr("failed")),
      OneKey(<<"Step1">>, PyDict([status |-> PyStr("failed")])) }

InitCondition ==
    /\ OrderIdle /\ DashIdle /\ PipeInit /\ PoolInit /\ ConnIdle /\ has_agent_added = TRUE
    /\ CycleIdle /\ CastIdle /\ StepIdle /\ WireIdle /\ DiskIdle
    /\ fn_in \in [text : Conditions, context : CondContexts]
    /\ fn_out = <<>>

CallCondition ==
    /\ fn_out = <<>>
    /\ fn_out' = <<EvaluateConditionText(fn_in.text, fn_in.context)>>
    /\ UNCHANGED <<fn_in, cycleVars, castVars, stepVars, wireVars, diskVars, orderVars, dashVars, pipeVars,
                   poolVars, connVars>>

NextCondition == CallCondition

SpecCondition == InitCondition /\ [][NextCondition]_vars

(***************************************************************************)
(* Claims about condition evaluation                                       *)
(***************************************************************************)
Spellings ==
    { {"step1", "Step1", "STEP1"}, {"true", "TRUE", "True"}, {"false", "FALSE"},
      {"success", "Success", "SUCCESS"} }

SameIgnoringCase(a, b) == a = b \/ \E S \in Spellings : a \in S /\ b \in S

\* the condition without its blanks and quotes
Core(c) == SelectSeq(c, LAMBDA t : t \notin {" ", "'"})

\* the context value a comparison reads: the status field of a structured
\* result that has one, else the value
Compared(v) ==
    IF v.kind = "dict" /\ "status" \in DOMAIN v.fields THEN Str(v.fields["status"])
    ELSE Str(v)

\* what the claim says the condition c evaluates to under the context
Claimed(c, context) ==
    LET core == Core(c)
    IN  IF c = <<>> THEN TRUE
        ELSE IF Len(core) = 1 /\ SameIgnoringCase(core[1], "true") THEN TRUE
        ELSE IF Len(core) = 1 /\ SameIgnoringCase(core[1], "false") THEN FALSE
        ELSE IF /\ Len(core) = 3
                /\ core[2] = "=="
                /\ \E key \in DOMAIN context : SameIgnoringCase(key[1], core[1])
        THEN LET key == CHOOSE key \in DOMAIN context : SameIgnoringCase(key[1], core[1])
             IN  SameIgnoringCase(Compared(context[key]), core[3])
        ELSE TRUE

\* C29: _evaluate_condition is true for the empty condition and the literal
\* true, false for the literal false; for 'key == value' whose key is a
\* context key, in whatever letter case, it is true exactly when the context
\* value (its status field where it is a structured result with one) equals
\* value without regard to case; any other form is true.
C29_ConditionValue ==
    fn_out # <<>> => fn_out[1] = Claimed(fn_in.text, fn_in.context)

(***************************************************************************)
(* send_prompt with the agent's side of the channel                        *)
(***************************************************************************)
\* A prompt is named by the number of the future its call created.  The agent
\* keeps the prompts it received on a channel and answers them oldest first,
\* one copilotPromptResult frame per prompt; the copilotPrompt frame carries
\* no request id, so neither does the result.

\* send_prompt up to its first suspension; a frame that was sent is in the
\* agent's hands
SendPromptSent(k, c) ==
    /\ SendPromptBegin(k, c)
    /\ inbox' = IF calls'[k].sent THEN [inbox EXCEPT ![c] = Append(@, calls'[k].fut)]
                ELSE inbox
    /\ UNCHANGED <<answers, cycleVars, castVars, fnVars, stepVars, diskVars>>

\* lines 143-151: the frame's data goes to the future found under the
\* instance id, if it is still pending
StoredAnswer(pend, a, p) ==
    IF a \in DOMAIN pend /\ futures[pend[a]] = "pending"
    THEN [answers EXCEPT ![pend[a]] = p]
    ELSE answers

\* the agent answers its oldest prompt and listen() reads the frame
AgentResult(c) ==
    /\ c \in DOMAIN conns
    /\ inbox[c] # <<>>
    /\ ListenRead(c, "copilotPromptResult")
    /\ inbox' = [inbox EXCEPT ![c] = Tail(@)]
    /\ answers' = StoredAnswer(conns[c].pending, conns[c].id, Head(inbox[c]))
    /\ UNCHANGED <<cycleVars, castVars, fnVars, stepVars, diskVars>>

\* connections with their listeners, callers of send_prompt (the pipeline and
\* the dashboard) and agents that answer each prompt once
NextWire ==
    \/ \E a \in AgentIds : ConnectAgentBegin(a)
    \/ \E o \in ConnectOutcomes : ConnectHandshake(o)
    \/ ConnectAnnounced
    \/ \E c \in 1 .. MaxConns : ListenStart(c)
    \/ \E c \in 1 .. MaxConns : ListenClosed(c)
    \/ \E c \in 1 .. MaxConns : RemoteClose(c)
    \/ \E k \in Callers, c \in 1 .. MaxConns : SendPromptSent(k, c)
    \/ \E c \in 1 .. MaxConns : AgentResult(c)
    \/ \E k \in Callers : SendPromptResolved(k)
    \/ \E k \in Callers : SendPromptTimeout(k)
    \/ \E k \in Callers : SendPromptTimedOut(k)

SpecWire == InitAgent /\ [][NextWire]_vars

(***************************************************************************)
(* Claims about the correlation of prompts and responses                   *)
(***************************************************************************)
\* C31: the result a send_prompt call returns is the agent's response to the
\* prompt this call sent, never the response to the prompt of an earlier call
\* that timed out or of another call pending on the same connection.
C31_ResultAnswersOwnPrompt ==
    \A k \in Callers :
        (calls[k].pc = "returned" /\ calls[k].result = "content")
        => answers[calls[k].fut] = calls[k].fut

(***************************************************************************)
(* Claims about the agent table under the heartbeat monitor               *)
(***************************************************************************)
\* C32: in every reachable state, whatever the interleaving of listener
\* closure detection, heartbeat probes and connects, an agent of the agent
\* table has health disconnected if and only if it is not connected.
C32_DisconnectedIffNotConnected ==
    \A a \in DOMAIN agents : (agents[a].health = "disconnected") <=> ~agents[a].connected

(***************************************************************************)
(* Claims about escalation, the queue and the end of a run                 *)
(***************************************************************************)
\* C33: once a Failure's status is escalated, only an explicit retry changes
\* it: the executor does not take it from the queue into a run and a run in
\* progress does not overwrite it with completed or failed.
C33_EscalatedUntilRetry ==
    [][\A fid \in DOMAIN failures :
        (failures[fid].status = "escalated" /\ failures'[fid].status # "escalated")
        => /\ failures'[fid].status = "pending"
           /\ failures'[fid].retry_count = failures[fid].retry_count + 1]_vars


QueuedIds == {queue[i].fid : i \in DOMAIN queue}

InProgress(fid) == ex_pc # "idle" /\ ex_fid = fid

\* C34: whatever the sequence of create, escalate and retry requests, an id is
\* not put on the queue while its run is in progress or while it already
\* waits there; the queue never holds an id twice and the Failure being
\* executed is never pending.
C34_NoDoubleEnqueue ==
    /\ [](\A i, j \in DOMAIN queue : queue[i].fid = queue[j].fid => i = j)
    /\ [](\A fid \in DOMAIN failures : InProgress(fid) => failures[fid].status # "pending")
    /\ [][enq_count' = enq_count + 1
          => LET fid == queue'[Len(queue')].fid
             IN  fid \notin QueuedIds /\ ~InProgress(fid)]_vars

(***************************************************************************)
(* The consumption loop under fair scheduling                              *)
(***************************************************************************)
LiveWorkflowInputs == {"linear", "checks", "empty", "missing"}

\* a step of the task start() runs in: the event loop resumes it whenever it
\* can go on, and every wait on an agent or on an HTTP request ends (with a
\* result or with its timeout)
ExecutorStep ==
    \/ ExecDequeue
    \/ \E ok \in BOOLEAN : ExecSetup(ok)
    \/ ExecDispatch
    \/ PromptReset
    \/ PromptSend
    \/ \E o \in PromptOutcomes : PromptResult(o)
    \/ \E ok \in BOOLEAN : HttpResult(ok)
    \/ CondRun
    \/ \E ok \in BOOLEAN : ExecStore(ok)
    \/ ExecAbort

NextLive ==
    \/ \E wf \in LiveWorkflowInputs : CreateFailureRoute(wf, TRUE)
    \/ ExecutorStep
    \/ \E a \in AgentIds : PoolConnect(a)
    \/ \E a \in AgentIds : PoolClosed(a)

SpecLive == InitPipe /\ [][NextLive]_vars /\ WF_vars(ExecutorStep)

\* C35: every failure id taken from the queue eventually leaves status
\* running, its run ending with status completed or failed, and no Failure is
\* in status running while the consumption loop is between two runs.
C35_RunLeavesRunning ==
    /\ \A fid \in FailureIds :
          (fid \in DOMAIN failures /\ failures[fid].status = "running")
          ~> (fid \in DOMAIN failures /\ failures[fid].status \in {"completed", "failed"})
    /\ [](ex_pc = "idle" => \A fid \in DOMAIN failures : failures[fid].status # "running")


\* C36: when a run ends, its PipelineState.status is not running any more and
\* is the outcome the run gave the Failure: completed after a successful run,
\* failed after an aborted one.
C36_PipelineStatusAtRunEnd ==
    [][\A fid \in DOMAIN pipelines :
        RunEnds(fid)
        => /\ pipelines'[fid].status \in {"completed", "failed"}
           /\ pipelines'[fid].status = failures'[fid].status]_vars


\* the retry request is answered with an error: "Failure not found", "Cannot
\* retry failure with status ...", or "No workflow set for failure"
RetryReturnsError(fid) ==
    \/ RetryRejected(fid)
    \/ failures[fid].workflow_id = None /\ active_workflow_id = None

\* C37: a retry request that returns an error (unknown id, status not
\* retryable, no workflow id available) leaves the Failure records and the
\* execution queue unchanged.
C37_FailedRetryChangesNothing ==
    [][\A fid \in FailureIds :
        (RetryFailureRoute(fid) /\ RetryReturnsError(fid))
        => UNCHANGED <<failures, queue>>]_vars

(***************************************************************************)
(* Claims about disconnect_agent                                           *)
(***************************************************************************)
\* the listener task of connection c ends with an unhandled exception
ListenerFaults(c) == conns[c].task = "running" /\ conns'[c].task = "faulted"

\* C38: when disconnect_agent(id) has completed, id is in neither the agent
\* table nor the connection table; a listener closure handler or a heartbeat
\* probe of that connection that finishes afterwards does not put the id
\* back and does not fault on the missing entry.
C38_DisconnectAgentIsFinal ==
    /\ [][DisconnectAgentFinish
          => LET a == conns[rc_conn].id
             IN  a \notin DOMAIN agents' /\ a \notin {connections'[i].id : i \in DOMAIN connections'}]_vars
    /\ [][\A c \in DOMAIN conns :
            (conns[c].id \notin DOMAIN agents /\ (ListenClosed(c) \/ HbStep))
            => /\ conns[c].id \notin DOMAIN agents'
               /\ ~ListenerFaults(c)]_vars

(***************************************************************************)
(* Claims about broadcasts that overlap                                    *)
(***************************************************************************)
\* A sink is unsubscribed only after it broke (by the endpoint on
\* WebSocketDisconnect, by a broadcast after a write to it raised), so a sink
\* that was subscribed when the broadcast began and is open has been in the
\* list all along.

\* C39: a sink that stays subscribed for the whole duration of a broadcast
\* receives its message exactly once, whatever sinks are added or removed
\* while the broadcast is suspended on a write.
C39_EverySinkOnce ==
    /\ [](\A b \in CastIds :
            casts[b].pc = "returned"
            => \A c \in casts[b].start : sinks[c] = "open" => c \in casts[b].sent)
    /\ [][\A b \in CastIds :
            (BroadcastSent(b) /\ sinks[casts[b].cur] = "open")
            => casts[b].cur \notin casts[b].sent]_vars

(***************************************************************************)
(* Runs with their run directory (pipeline-runs/<failure id>)              *)
(***************************************************************************)
\* A file is named by what it holds: "input" for 00-failure-input.json, the
\* node id for the output file of a step (its name is made of the step
\* number and the node label, the same in every run of the workflow).  The
\* run that wrote a file last is the ticket of the queue entry the run took.

\* _save_to_run: write_text creates the file or replaces its content
Written(files, fid, name, run) ==
    {f \in files : ~(f.fid = fid /\ f.name = name)}
        \cup {[fid |-> fid, name |-> name, run |-> run]}

\* _list_run_files: the *.json files of the directory of the failure id
ListRunFiles(fid) == {[name |-> f.name, run |-> f.run] : f \in {g \in run_files : g.fid = fid}}

\* line 313: the failure input is saved when the run starts
ExecSetupDisk(save_ok) ==
    /\ ExecSetupRun(save_ok)
    /\ run_files' = IF save_ok THEN Written(run_files, ex_fid, "input", deq_last)
                    ELSE run_files
    /\ UNCHANGED <<ex_listing, cycleVars, castVars, fnVars, stepVars, wireVars>>

\* lines 382-410: the output of the step is saved
ExecStoreDisk(save_ok) ==
    /\ ExecStoreRun(save_ok)
    /\ run_files' = IF save_ok THEN Written(run_files, ex_fid, CurrentNode, deq_last)
                    ELSE run_files
    /\ UNCHANGED <<ex_listing, cycleVars, castVars, fnVars, stepVars, wireVars>>

\* lines 495-525: the listing of the run directory is appended to the prompt
PromptSendDisk ==
    /\ PromptSendRun
    /\ ex_listing' = [fid |-> ex_fid, run |-> deq_last, step |-> ex_i,
                      files |-> ListRunFiles(ex_fid)]
    /\ UNCHANGED run_files

\* runs of the workflow twostep (a prompt step, then an HTTP step) and their
\* retries, with one agent that connects and goes away
NextRetry ==
    \/ CreateFailureRoute("twostep", TRUE)
    \/ \E fid \in FailureIds : RetryFailureRoute(fid)
    \/ ExecDequeue
    \/ \E ok \in BOOLEAN : ExecSetupDisk(ok)
    \/ ExecDispatch
    \/ PromptReset
    \/ PromptSendDisk
    \/ \E o \in PromptOutcomes : PromptResult(o)
    \/ \E ok \in BOOLEAN : HttpResult(ok)
    \/ \E ok \in BOOLEAN : ExecStoreDisk(ok)
    \/ ExecAbort
    \/ \E a \in AgentIds : PoolConnect(a)
    \/ \E a \in AgentIds : PoolClosed(a)

SpecRetry == InitPipe /\ [][NextRetry]_vars

(***************************************************************************)
(* Claims about the artifact listing                                       *)
(***************************************************************************)
\* the nodes before position k of the execution order of the failure's run
StepsBefore(fid, k) ==
    LET order == pipelines[fid].execution_order
    IN  {order[j] : j \in 1 .. (k - 1)}

\* C40: the artifact listing appended to the prompt of step k of a run names
\* only files written earlier in that same run, the failure input and the
\* outputs of the steps before k; in a run started by retry it names no
\* artifact written by a previous run of the Failure.
C40_ListingOfThisRun ==
    \A f \in ex_listing.files :
        /\ f.run = ex_listing.run
        /\ f.name = "input" \/ f.name \in StepsBefore(ex_listing.fid, ex_listing.step)

=============================================================================
